---- MODULE Spec2Model ----
(***************************************************************************)
(* State-machine model of the job registry of github-critic-fastAPI:      *)
(* the in-memory table analysis_jobs (app/services/github.py), the request *)
(* handlers of app/api/routes/repositories.py that read and write it, and  *)
(* the background procedures that drive a job through its lifecycle.       *)
(*                                                                         *)
(* Scheduling: one asyncio event loop.  A coroutine runs without           *)
(* interruption until it awaits something that really suspends; the        *)
(* variable cur holds the background procedure that owns the loop, and     *)
(* request handlers and task starts are enabled only while cur is NoTask.  *)
(* The file system is outside the loop: its steps interleave everywhere.   *)
(***************************************************************************)
EXTENDS Integers, Sequences, FiniteSets, TLC

\* ------------------------------------------------------------------ bounds
MaxReady    == 1   \* background tasks created and not yet started
MaxExternal == 1   \* files removed from snapshots by something outside the program
MaxRoasts   == 1   \* auto-roast requests made for one job

\* --------------------------------------------------------------- JobStatus
PENDING   == "pending"
CLONING   == "cloning"
ANALYZING == "analyzing"
COMPLETED == "completed"
FAILED    == "failed"
JobStatus == {PENDING, CLONING, ANALYZING, COMPLETED, FAILED}

\* select_paths limits
WARNING_THRESHOLD == 50
MAX_FILES_LIMIT   == 200

\* ------------------------------------------------------------ python dicts
\* {**a, **b}: the keys of both, b's value where both have the key.
Merge(a, b) ==
  [k \in (DOMAIN a) \cup (DOMAIN b) |-> IF k \in DOMAIN b THEN b[k] ELSE a[k]]

\* dict.get(key, default)
Get(d, k, default) == IF k \in DOMAIN d THEN d[k] ELSE default

EmptyDict == [k \in {} |-> 0]

\* A message: the f-string's fixed text and the numbers formatted into it.
Msg(text, args) == [text |-> text, args |-> args]

Min(a, b) == IF a <= b THEN a ELSE b

\* ------------------------------------------------------------- file names
\* A file or directory name base<idx>ext ("f12.py" is base "f", idx 12,
\* ext ".py"); ext is what os.path.splitext returns for the name.
Nm(base, idx, ext) == [base |-> base, idx |-> idx, ext |-> ext]

splitext(name) == name.ext

\* str.lower() on the extensions that occur in the snapshots
lower(ext) ==
  CASE ext = ".JS" -> ".js"
    [] ext = ".PY" -> ".py"
    [] OTHER -> ext

\* A relative path is the sequence of its components; "" is << >>.
\* A directory entry that is not a directory: a regular file, or a dangling
\* symbolic link (dangling = TRUE), which os.walk lists among the files but
\* for which os.path.isfile is false and os.path.getsize raises.
Fl(path, lines, size) ==
  [path |-> path, lines |-> lines, size |-> size, dangling |-> FALSE]

Lnk(path) == [path |-> path, lines |-> 0, size |-> 0, dangling |-> TRUE]

IsPrefix(p, q) == Len(p) <= Len(q) /\ SubSeq(q, 1, Len(p)) = p

basename(p) == p[Len(p)]

dirname(p) == SubSeq(p, 1, Len(p) - 1)

\* ------------------------------------------------- the remote repositories
\* What Repo.clone_from materialises for each URL.  files is in os.walk
\* order (a directory's files, then its subdirectories, top-down).
GIT  == Nm(".git", 0, "")
SRC  == Nm("src", 0, "")
SRC2 == Nm("src2", 0, "")
CORE == Nm("core", 0, "")
NODE == Nm("node_modules", 0, "")
DOCS == Nm("docs", 0, "")
PKG  == Nm("pkg", 0, "")
BIG  == Nm("big", 0, "")

SmallTree ==
  [files |-> << Fl(<<Nm("main", 0, ".py")>>, 120, 3000),
                Fl(<<Nm("README", 0, ".md")>>, 30, 900),
                Fl(<<GIT, Nm("config", 0, "")>>, 10, 200),
                Fl(<<SRC, Nm("app", 0, ".py")>>, 200, 5000),
                Fl(<<SRC, Nm("Util", 0, ".JS")>>, 60, 1500),
                Fl(<<SRC, Nm("notes", 0, ".txt")>>, 5, 100),
                Fl(<<SRC, CORE, Nm("x", 0, ".py")>>, 600, 20000),
                Fl(<<SRC2, Nm("y", 0, ".py")>>, 80, 2000),
                Fl(<<NODE, Nm("lib", 0, ".js")>>, 300, 9000) >>,
   dirs  |-> { <<GIT>>, <<SRC>>, <<SRC, CORE>>, <<SRC2>>, <<NODE>>, <<DOCS>> }]

\* A repository whose root holds a dangling symbolic link.
LinkTree ==
  [files |-> << Fl(<<Nm("a", 0, ".py")>>, 40, 700),
                Lnk(<<Nm("latest", 0, "")>>) >>,
   dirs  |-> {}]

\* A repository with one directory of 50 code files and one more code file.
BigTree ==
  [files |-> << Fl(<<Nm("one", 0, ".py")>>, 100, 2500) >>
             \o [i \in 1..50 |-> Fl(<<PKG, Nm("f", i, ".py")>>, 100, 2500)],
   dirs  |-> { <<PKG>> }]

\* The small repository with a dependency cache nested inside src.
NestedTree ==
  [files |-> SmallTree.files \o << Fl(<<SRC, NODE, Nm("lib", 0, ".js")>>, 300, 9000) >>,
   dirs  |-> SmallTree.dirs \cup { <<SRC, NODE>>, <<SRC, CORE, DOCS>>, <<SRC, NODE, DOCS>> }]

\* A repository for the auto-critique: five files of pkg pass the first walk of
\* the selection; main.py and the files of big pass only the relaxed one, and
\* huge.py passes neither.
RoastTree ==
  [files |-> << Fl(<<Nm("main", 0, ".py")>>, 200, 400) >>
             \o [i \in 1..5 |-> Fl(<<PKG, Nm("f", i, ".py")>>, 60 + 10 * i, 2500)]
             \o << Fl(<<BIG, Nm("huge", 0, ".py")>>, 1200, 40000),
                   Fl(<<BIG, Nm("tiny", 0, ".py")>>, 20, 300),
                   Fl(<<BIG, Nm("small", 0, ".py")>>, 30, 400),
                   Fl(<<BIG, Nm("notes", 0, ".txt")>>, 5, 100) >>,
   dirs  |-> { <<PKG>>, <<BIG>> }]

URL_SMALL == "https://github.com/o/small"
URL_LINK  == "https://github.com/o/link"
URL_BIG   == "https://github.com/o/big"
URL_TREE  == "https://github.com/o/nested"
URL_ROAST == "https://github.com/o/critique"

Remote(url) ==
  CASE url = URL_SMALL -> SmallTree
    [] url = URL_LINK  -> LinkTree
    [] url = URL_BIG   -> BigTree
    [] url = URL_TREE  -> NestedTree
    [] url = URL_ROAST -> RoastTree

\* ------------------------------------------------------ names as strings
\* The code points of the literal strings names are built from.
CodePoints(s) ==
  CASE s = "" -> << >>
    [] s = ".git" -> <<46, 103, 105, 116>>
    [] s = "src" -> <<115, 114, 99>>
    [] s = "src2" -> <<115, 114, 99, 50>>
    [] s = "core" -> <<99, 111, 114, 101>>
    [] s = "node_modules" -> <<110, 111, 100, 101, 95, 109, 111, 100, 117, 108, 101, 115>>
    [] s = "docs" -> <<100, 111, 99, 115>>
    [] s = "big" -> <<98, 105, 103>>
    [] s = "huge" -> <<104, 117, 103, 101>>
    [] s = "tiny" -> <<116, 105, 110, 121>>
    [] s = "small" -> <<115, 109, 97, 108, 108>>
    [] s = "pkg" -> <<112, 107, 103>>
    [] s = "main" -> <<109, 97, 105, 110>>
    [] s = "README" -> <<82, 69, 65, 68, 77, 69>>
    [] s = "config" -> <<99, 111, 110, 102, 105, 103>>
    [] s = "app" -> <<97, 112, 112>>
    [] s = "Util" -> <<85, 116, 105, 108>>
    [] s = "notes" -> <<110, 111, 116, 101, 115>>
    [] s = "x" -> <<120>>
    [] s = "y" -> <<121>>
    [] s = "lib" -> <<108, 105, 98>>
    [] s = "a" -> <<97>>
    [] s = "latest" -> <<108, 97, 116, 101, 115, 116>>
    [] s = "one" -> <<111, 110, 101>>
    [] s = "f" -> <<102>>
    [] s = ".py" -> <<46, 112, 121>>
    [] s = ".md" -> <<46, 109, 100>>
    [] s = ".JS" -> <<46, 74, 83>>
    [] s = ".txt" -> <<46, 116, 120, 116>>
    [] s = ".js" -> <<46, 106, 115>>

RECURSIVE Digits(_)
Digits(n) == IF n < 10 THEN <<48 + n>> ELSE Digits(n \div 10) \o <<48 + (n % 10)>>

\* The name as the string Python sees.
NameChars(nm) ==
  CodePoints(nm.base) \o (IF nm.idx = 0 THEN << >> ELSE Digits(nm.idx))
                      \o CodePoints(nm.ext)

\* Python's str ordering: lexicographic by code point.
RECURSIVE LexLess(_, _)
LexLess(a, b) ==
  IF a = << >> THEN b # << >>
  ELSE IF b = << >> THEN FALSE
  ELSE IF Head(a) # Head(b) THEN Head(a) < Head(b)
  ELSE LexLess(Tail(a), Tail(b))

NameLess(m, n) == LexLess(NameChars(m), NameChars(n))

\* --------------------------------------------------------------- traversal
ignore_dirs ==
  { ".git", "node_modules", "venv", "__pycache__", ".idea", ".vscode", "build", "dist" }

\* item in ignore_dirs
Ignored(nm) == nm.idx = 0 /\ nm.ext = "" /\ nm.base \in ignore_dirs

\* The 15 extensions of select_paths, sample_directory and get_subdirectory_sizes.
code_extensions ==
  { ".py", ".js", ".jsx", ".ts", ".tsx", ".java", ".c", ".cpp",
    ".cs", ".go", ".rb", ".php", ".swift", ".kt", ".rs" }

\* The extension table of traverse_repository.
known_extensions ==
  code_extensions \cup
  { ".html", ".css", ".scss", ".json", ".yml", ".yaml", ".xml", ".toml", ".ini",
    ".md", ".sh", ".sql" }

Range(s) == { s[i] : i \in DOMAIN s }

\* Variant: the names in descending order.
RECURSIVE SeqOfSet_descending(_)
SeqOfSet_descending(S) ==
  IF S = {} THEN << >>
  ELSE LET m == CHOOSE x \in S : \A y \in S \ {x} : NameLess(y, x)
       IN  <<m>> \o SeqOfSet_descending(S \ {m})

\* sorted(names)
RECURSIVE SeqOfSet(_)
SeqOfSet(S) ==
  IF S = {} THEN << >>
  ELSE LET m == CHOOSE x \in S : \A y \in S \ {x} : NameLess(x, y)
       IN  <<m>> \o SeqOfSet(S \ {m})

\* ---------------------------------------------- os.path on a snapshot tree
\* d is the file system: snapshot handle -> tree; a removed snapshot has no entry.
exists(d, h) == h \in DOMAIN d

isfile(d, h, p) ==
  /\ exists(d, h)
  /\ \E i \in DOMAIN d[h].files : d[h].files[i].path = p /\ ~d[h].files[i].dangling

isdir(d, h, p) == exists(d, h) /\ (p = << >> \/ p \in d[h].dirs)

\* os.walk(top): every non-directory entry beneath top, in walk order.
walk(d, h, top) ==
  IF isdir(d, h, top)
  THEN SelectSeq(d[h].files, LAMBDA f : IsPrefix(top, f.path) /\ f.path # top)
  ELSE << >>

\* os.walk(top) with dirs[:] pruned of ignore_dirs: entries beneath top that no
\* ignored directory below top contains.
walk_pruned(d, h, top) ==
  SelectSeq(walk(d, h, top),
            LAMBDA f : \A i \in (Len(top) + 1)..(Len(f.path) - 1) : ~Ignored(f.path[i]))

\* traverse_repository: the per-extension lists, reduced to what the caller
\* keeps: total_files and file_stats (the non-empty extensions' counts).
ext_key(f) ==
  LET e == lower(splitext(basename(f.path)))
  IN  IF e \in known_extensions THEN e ELSE "other"

traverse_repository(d, h) ==
  LET fs   == walk_pruned(d, h, << >>)
      keys == { ext_key(fs[i]) : i \in DOMAIN fs }
  IN  [total_files |-> Len(fs),
       file_stats  |-> [k \in keys |-> Cardinality({ i \in DOMAIN fs : ext_key(fs[i]) = k })]]

\* get_directory_contents: the immediate children of dir_path, or an error dict.
children(d, h, dir_path) ==
  { f.path[Len(dir_path) + 1] :
      f \in { g \in Range(d[h].files) : IsPrefix(dir_path, g.path) /\ Len(g.path) = Len(dir_path) + 1 } }

subdirs(d, h, dir_path) ==
  { p[Len(p)] : p \in { q \in d[h].dirs : dirname(q) = dir_path } }

entry(d, h, p) == CHOOSE f \in Range(d[h].files) : f.path = p

get_directory_contents(d, h, dir_path) ==
  IF ~isdir(d, h, dir_path) THEN [error |-> "Directory not found"]
  ELSE
    LET ds == SeqOfSet({ n \in subdirs(d, h, dir_path) : ~Ignored(n) })
        fl == SeqOfSet(children(d, h, dir_path))
    IN  IF \E i \in DOMAIN fl : entry(d, h, dir_path \o <<fl[i]>>).dangling
        THEN [error |-> "Failed to read directory"]
        ELSE [current_path |-> dir_path,
              directories  |-> [i \in DOMAIN ds |->
                                  [name |-> ds[i], path |-> dir_path \o <<ds[i]>>,
                                   file_count |-> Len(walk(d, h, dir_path \o <<ds[i]>>))]],
              files        |-> [i \in DOMAIN fl |->
                                  LET f == entry(d, h, dir_path \o <<fl[i]>>)
                                  IN  [name |-> fl[i], path |-> f.path, size |-> f.size,
                                       extension |-> lower(splitext(fl[i]))]]]

\* ------------------------------------------------------------------ state
VARIABLES
  analysis_jobs,  \* github.py:24, job id -> record (a dict: field name -> value)
  disk,           \* the temporary directories: handle -> tree
  ready,          \* the event loop's queue of created, not yet started tasks
  cur,            \* the background procedure that owns the loop, or NoTask
  response,       \* what the last request handler returned
  world,          \* which repositories and requests this run draws from
  external,       \* number of files removed from outside so far
  fetch_log,      \* per job: what its fetch procedure did (history, for the properties)
  awaiting        \* auto-roast handlers suspended in a call to the LLM service

vars == <<analysis_jobs, disk, ready, cur, response, world, external, fetch_log, awaiting>>

NoTask == [kind |-> "none"]

\* The job ids uuid4 hands out in one run.
Jobs == IF world = "pair" THEN { 1, 2 } ELSE { 1 }

\* uuid.uuid4(): an id no job has yet.
NewJobId == Cardinality(DOMAIN analysis_jobs) + 1

\* Variant: one directory name handed out to every fetch.
NewHandle_shared(job_id) == 1

\* tempfile.mkdtemp: a directory name never handed out before (one per fetch).
NewHandle(job_id) == job_id

EmptyTree == [files |-> << >>, dirs |-> {}]

Urls ==
  CASE world = "big"  -> { URL_BIG }
    [] world = "link" -> { URL_LINK }
    [] world = "tree" -> { URL_TREE }
    [] world = "roast" -> { URL_ROAST }
    [] OTHER          -> { URL_SMALL }

\* History of a job: the status values its record has taken while its fetch
\* procedure has not finished, whether the clone succeeded, the directory
\* mkdtemp made for it, whether removing that directory failed, whether the
\* fetch procedure has finished, the entries the latest completed batch
\* run left in analysis_results, the auto-roast requests made for it,
\* whether a selection has been registered for it, and whether a batch run has
\* started on the selection that is registered now.
NewLog(status) ==
  [statuses |-> <<status>>, cloned |-> FALSE, handle |-> 0, leaked |-> FALSE,
   finished |-> FALSE, last_batch |-> {}, roasts |-> 0,
   selected |-> FALSE, run_on_selection |-> FALSE]

Logged(log, rec) ==
  IF log.finished \/ rec.status = log.statuses[Len(log.statuses)] THEN log
  ELSE [log EXCEPT !.statuses = Append(@, rec.status)]

\* analysis_jobs[job_id] = rec; note holds what the step adds to the job's log.
Write(job_id, rec, note) ==
  /\ analysis_jobs' = [k \in DOMAIN analysis_jobs \cup {job_id} |->
                         IF k = job_id THEN rec ELSE analysis_jobs[k]]
  /\ fetch_log' = [k \in DOMAIN fetch_log \cup {job_id} |->
                     IF k = job_id
                     THEN (IF k \in DOMAIN fetch_log
                           THEN Merge(Logged(fetch_log[k], rec), note)
                           ELSE Merge(NewLog(rec.status), note))
                     ELSE fetch_log[k]]

Put(job_id, rec) == Write(job_id, rec, EmptyDict)

\* A step of a job's fetch that writes no record.
Note(job_id, note) ==
  /\ fetch_log' = [fetch_log EXCEPT ![job_id] = Merge(@, note)]
  /\ UNCHANGED analysis_jobs

Loop_idle == cur = NoTask

InitWorld(w) ==
  /\ analysis_jobs = EmptyDict
  /\ disk = EmptyDict
  /\ ready = << >>
  /\ cur = NoTask
  /\ response = [op |-> "none"]
  /\ world = w
  /\ external = 0
  /\ fetch_log = EmptyDict
  /\ awaiting = {}

Init == InitWorld("small")

\* ------------------------------------------------------- creating the jobs
PendingRecord(job_id, message) ==
  [status |-> PENDING, message |-> Msg(message, << >>), job_id |-> job_id]

\* POST /analyze/async
analyze_repository_async(repo_url) ==
  /\ Loop_idle
  /\ NewJobId \in Jobs
  /\ Len(ready) < MaxReady
  /\ LET job_id == NewJobId IN
       /\ Write(job_id, PendingRecord(job_id, "Analysis started"), [kind |-> "async"])
       /\ ready' = Append(ready, [kind |-> "async", job_id |-> job_id,
                                  repo_url |-> repo_url, pc |-> "begin", repo_path |-> 0,
                                  error |-> ""])
       /\ response' = [op |-> "analyze_async", code |-> 200, job_id |-> job_id]
  /\ UNCHANGED <<disk, cur, world, external, awaiting>>

\* POST /structure
get_repository_structure(repo_url) ==
  /\ Loop_idle
  /\ NewJobId \in Jobs
  /\ Len(ready) < MaxReady
  /\ LET job_id == NewJobId IN
       /\ Write(job_id, PendingRecord(job_id, "Structure retrieval started"),
                [kind |-> "structure"])
       /\ ready' = Append(ready, [kind |-> "structure", job_id |-> job_id,
                                  repo_url |-> repo_url, pc |-> "begin", repo_path |-> 0,
                                  error |-> ""])
       /\ response' = [op |-> "structure", code |-> 200, job_id |-> job_id]
  /\ UNCHANGED <<disk, cur, world, external, awaiting>>

\* The loop runs the oldest created task.
task_start ==
  /\ Loop_idle
  /\ ready # << >>
  /\ cur' = Head(ready)
  /\ ready' = Tail(ready)
  /\ UNCHANGED <<analysis_jobs, disk, response, world, external, fetch_log, awaiting>>

\* ------------------------------------------------- the fetch procedures
\* retrieve_repository: mkdtemp, then Repo.clone_from.  It returns the new
\* directory, or the clone fails and shutil.rmtree(temp_dir, ignore_errors=True)
\* removes the directory ("fail") or fails silently and leaves it ("fail_leak").
RetrieveOutcomes == { "ok", "fail", "fail_leak" }

CloneError == "Failed to clone repository"

\* retrieve_repository without the rmtree of its except block.
disk_after_retrieve_nocleanup(d, h, repo_url, outcome) ==
  IF outcome = "ok" THEN Merge(d, h :> Remote(repo_url)) ELSE Merge(d, h :> EmptyTree)

disk_after_retrieve(d, h, repo_url, outcome) ==
  CASE outcome = "ok"        -> Merge(d, h :> Remote(repo_url))
    [] outcome = "fail"      -> d
    [] outcome = "fail_leak" -> Merge(d, h :> EmptyTree)

\* Variant: a removal that removes nothing.
rmtree_keeps(d, h, removed) == d

\* shutil.rmtree(path, ignore_errors=True): removed = FALSE is the failure it ignores.
rmtree(d, h, removed) ==
  IF removed THEN [k \in DOMAIN d \ {h} |-> d[k]] ELSE d

\* The first write of the fetch procedures with the status of their second.
CloningRecord_analyzing(job_id) ==
  [status |-> ANALYZING, message |-> Msg("Cloning repository...", << >>), job_id |-> job_id]

CloningRecord(job_id) ==
  [status |-> CLONING, message |-> Msg("Cloning repository...", << >>), job_id |-> job_id]

\* The write after the clone without its repo_path.
AnalyzingRecord_nopath(job_id, repo_path) ==
  [status |-> ANALYZING, message |-> Msg("Analyzing repository structure...", << >>),
   job_id |-> job_id]

AnalyzingRecord(job_id, repo_path) ==
  [status |-> ANALYZING, message |-> Msg("Analyzing repository structure...", << >>),
   job_id |-> job_id, repo_path |-> repo_path]

AsyncCompletedRecord(job_id, repo_url, repo_path, stats) ==
  [status |-> COMPLETED, repo_url |-> repo_url, repo_path |-> repo_path,
   total_files |-> stats.total_files, file_stats |-> stats.file_stats,
   message |-> Msg("Repository analyzed successfully", << >>), job_id |-> job_id]

\* Variant: the failure record still naming the snapshot made for the job.
AsyncFailedRecord_keeps_path(job_id, error) ==
  [status |-> FAILED, message |-> Msg("Repository analysis failed", << >>),
   error |-> error, job_id |-> job_id, repo_path |-> NewHandle(job_id)]

AsyncFailedRecord(job_id, error) ==
  [status |-> FAILED, message |-> Msg("Repository analysis failed", << >>),
   error |-> error, job_id |-> job_id]

StructureCompletedRecord(job_id, repo_url, repo_path, structure) ==
  [status |-> COMPLETED, repo_url |-> repo_url, repo_path |-> repo_path,
   structure |-> structure,
   message |-> Msg("Repository structure retrieved successfully", << >>),
   job_id |-> job_id]

StructureFailedRecord(job_id, error) ==
  [status |-> FAILED, message |-> Msg("Repository structure retrieval failed", << >>),
   error |-> error, job_id |-> job_id]

\* --- process_repository_async
process_repository_async_begin ==
  /\ cur.kind = "async" /\ cur.pc = "begin"
  /\ Put(cur.job_id, CloningRecord(cur.job_id))
  /\ cur' = [cur EXCEPT !.pc = "clone"]
  /\ UNCHANGED <<disk, ready, response, world, external, awaiting>>

process_repository_async_clone ==
  /\ cur.kind = "async" /\ cur.pc = "clone"
  /\ \E outcome \in RetrieveOutcomes :
       LET h == NewHandle(cur.job_id) IN
       /\ disk' = disk_after_retrieve(disk, h, cur.repo_url, outcome)
       /\ IF outcome = "ok"
          THEN /\ Write(cur.job_id, AnalyzingRecord(cur.job_id, h),
                        [cloned |-> TRUE, handle |-> h])
               /\ cur' = [cur EXCEPT !.pc = "work", !.repo_path = h]
          ELSE /\ Note(cur.job_id, [handle |-> h, leaked |-> (outcome = "fail_leak")])
               /\ cur' = [cur EXCEPT !.pc = "except", !.error = CloneError]
  /\ UNCHANGED <<ready, response, world, external, awaiting>>

\* traverse_repository and the COMPLETED record, or an exception out of the walk.
process_repository_async_work ==
  /\ cur.kind = "async" /\ cur.pc = "work"
  /\ \/ /\ Put(cur.job_id,
               AsyncCompletedRecord(cur.job_id, cur.repo_url, cur.repo_path,
                                    traverse_repository(disk, cur.repo_path)))
        /\ cur' = [cur EXCEPT !.pc = "return"]
     \/ /\ cur' = [cur EXCEPT !.pc = "except", !.error = "traverse_repository raised"]
        /\ UNCHANGED <<analysis_jobs, fetch_log, awaiting>>
  /\ UNCHANGED <<disk, ready, response, world, external, awaiting>>

process_repository_async_except ==
  /\ cur.kind = "async" /\ cur.pc = "except"
  /\ Put(cur.job_id, AsyncFailedRecord(cur.job_id, cur.error))
  /\ cur' = [cur EXCEPT !.pc = "cleanup"]
  /\ UNCHANGED <<disk, ready, response, world, external, awaiting>>

\* if 'repo_path' in locals() and os.path.exists(repo_path): shutil.rmtree(...)
process_repository_async_cleanup ==
  /\ cur.kind = "async" /\ cur.pc = "cleanup"
  /\ IF cur.repo_path # 0 /\ exists(disk, cur.repo_path)
     THEN \E removed \in BOOLEAN :
            /\ disk' = rmtree(disk, cur.repo_path, removed)
            /\ Note(cur.job_id, [leaked |-> ~removed])
     ELSE UNCHANGED <<disk, analysis_jobs, fetch_log>>
  /\ cur' = [cur EXCEPT !.pc = "return"]
  /\ UNCHANGED <<ready, response, world, external, awaiting>>

process_repository_async_return ==
  /\ cur.kind = "async" /\ cur.pc = "return"
  /\ Note(cur.job_id, [finished |-> TRUE])
  /\ cur' = NoTask
  /\ UNCHANGED <<disk, ready, response, world, external, awaiting>>

\* --- process_repository_structure
process_repository_structure_begin ==
  /\ cur.kind = "structure" /\ cur.pc = "begin"
  /\ Put(cur.job_id, CloningRecord(cur.job_id))
  /\ cur' = [cur EXCEPT !.pc = "clone"]
  /\ UNCHANGED <<disk, ready, response, world, external, awaiting>>

process_repository_structure_clone ==
  /\ cur.kind = "structure" /\ cur.pc = "clone"
  /\ \E outcome \in RetrieveOutcomes :
       LET h == NewHandle(cur.job_id) IN
       /\ disk' = disk_after_retrieve(disk, h, cur.repo_url, outcome)
       /\ IF outcome = "ok"
          THEN /\ Write(cur.job_id, AnalyzingRecord(cur.job_id, h),
                        [cloned |-> TRUE, handle |-> h])
               /\ cur' = [cur EXCEPT !.pc = "work", !.repo_path = h]
          ELSE /\ Note(cur.job_id, [handle |-> h, leaked |-> (outcome = "fail_leak")])
               /\ cur' = [cur EXCEPT !.pc = "except", !.error = CloneError]
  /\ UNCHANGED <<ready, response, world, external, awaiting>>

\* get_directory_contents(repo_path) catches what listing raises and returns an
\* error dict; nothing between the clone and the COMPLETED record raises.
process_repository_structure_work ==
  /\ cur.kind = "structure" /\ cur.pc = "work"
  /\ Put(cur.job_id,
         StructureCompletedRecord(cur.job_id, cur.repo_url, cur.repo_path,
                                  get_directory_contents(disk, cur.repo_path, << >>)))
  /\ cur' = [cur EXCEPT !.pc = "return"]
  /\ UNCHANGED <<disk, ready, response, world, external, awaiting>>

process_repository_structure_except ==
  /\ cur.kind = "structure" /\ cur.pc = "except"
  /\ Put(cur.job_id, StructureFailedRecord(cur.job_id, cur.error))
  /\ cur' = [cur EXCEPT !.pc = "cleanup"]
  /\ UNCHANGED <<disk, ready, response, world, external, awaiting>>

process_repository_structure_cleanup ==
  /\ cur.kind = "structure" /\ cur.pc = "cleanup"
  /\ IF cur.repo_path # 0 /\ exists(disk, cur.repo_path)
     THEN \E removed \in BOOLEAN :
            /\ disk' = rmtree(disk, cur.repo_path, removed)
            /\ Note(cur.job_id, [leaked |-> ~removed])
     ELSE UNCHANGED <<disk, analysis_jobs, fetch_log>>
  /\ cur' = [cur EXCEPT !.pc = "return"]
  /\ UNCHANGED <<ready, response, world, external, awaiting>>

process_repository_structure_return ==
  /\ cur.kind = "structure" /\ cur.pc = "return"
  /\ Note(cur.job_id, [finished |-> TRUE])
  /\ cur' = NoTask
  /\ UNCHANGED <<disk, ready, response, world, external, awaiting>>

\* ------------------------------------------------------------- selection
\* extensions is None
NoFilter == { "<None>" }

matches(name, extensions) ==
  extensions = NoFilter \/ lower(splitext(name)) \in extensions

paths_of(fs) == [i \in DOMAIN fs |-> fs[i].path]

\* count_files_in_paths: the running total and the list, path by path.
RECURSIVE count_files_from(_, _, _, _, _)
count_files_from(d, h, paths, extensions, acc) ==
  IF paths = << >> THEN acc
  ELSE
    LET path == Head(paths)
        hit  == SelectSeq(walk(d, h, path), LAMBDA f : matches(basename(f.path), extensions))
        step ==
          IF isfile(d, h, path)
          THEN IF matches(basename(path), extensions)
               THEN [total_files |-> acc.total_files + 1,
                     file_paths  |-> Append(acc.file_paths, path)]
               ELSE acc
          ELSE IF isdir(d, h, path)
          THEN [total_files |-> acc.total_files + Len(hit),
                file_paths  |-> acc.file_paths \o paths_of(hit)]
          ELSE acc
    IN  count_files_from(d, h, Tail(paths), extensions, step)

\* The first occurrence of each entry of a list.
RECURSIVE Dedup(_)
Dedup(s) ==
  IF s = << >> THEN << >>
  ELSE LET r == Dedup(SubSeq(s, 1, Len(s) - 1))
       IN  IF s[Len(s)] \in Range(r) THEN r ELSE Append(r, s[Len(s)])

\* Variant: each file counted and listed once.
count_files_in_paths_distinct(d, h, paths, extensions) ==
  LET counted == count_files_from(d, h, paths, extensions,
                                  [total_files |-> 0, file_paths |-> << >>])
      once    == Dedup(counted.file_paths)
  IN  [total_files |-> Len(once), file_paths |-> once]

count_files_in_paths(d, h, paths, extensions) ==
  count_files_from(d, h, paths, extensions, [total_files |-> 0, file_paths |-> << >>])

\* The requests' path lists.
MAIN_PY == <<Nm("main", 0, ".py")>>
ONE_PY  == <<Nm("one", 0, ".py")>>
GONE    == <<Nm("gone", 0, ".py")>>
README  == <<Nm("README", 0, ".md")>>

Selections ==
  IF world = "big"
  THEN { << <<PKG>> >>,                                         \* 50 files
         << <<PKG>>, ONE_PY >>,                                 \* 51
         << <<PKG>>, <<PKG>>, <<PKG>>, <<PKG>> >>,              \* 200
         << <<PKG>>, <<PKG>>, <<PKG>>, <<PKG>>, ONE_PY >> }     \* 201
  ELSE IF world = "link" THEN { << << >> >> }
  ELSE IF world = "nokey" THEN { << <<SRC>> >>, << MAIN_PY, <<SRC2>> >> }
  ELSE IF world = "tree" THEN { << <<SRC>> >>, << <<NODE>>, MAIN_PY >> }
  ELSE IF world = "paths"
  THEN { << <<SRC>>, MAIN_PY, GONE, MAIN_PY >>, << README >>,
         << <<SRC>>, <<SRC, Nm("app", 0, ".py")>>, <<SRC, CORE>> >> }
  ELSE IF world = "roast" THEN { << <<PKG>> >> }
  ELSE { << <<SRC>> >> }

\* The limit test off by one.
exceeds_limit_off_by_one(total_files) == total_files > MAX_FILES_LIMIT + 1

\* if total_files > MAX_FILES_LIMIT
exceeds_limit(total_files) == total_files > MAX_FILES_LIMIT

\* A selection that also puts the job back to PENDING.
SelectionRecord_resets(job_data, paths, file_paths) ==
  Merge(job_data, [status |-> PENDING, selected_paths |-> paths, file_paths |-> file_paths])

\* A selection that stores the request's paths as the expansion.
SelectionRecord_unexpanded(job_data, paths, file_paths) ==
  Merge(job_data, [selected_paths |-> paths, file_paths |-> paths])

\* What select_paths stores.
SelectionRecord(job_data, paths, file_paths) ==
  Merge(job_data, [selected_paths |-> paths, file_paths |-> file_paths])

\* The warning test with >= for >.
selection_message_ge(n_paths, total_files) ==
  IF total_files > MAX_FILES_LIMIT
  THEN Msg("exceeds the maximum limit", <<total_files, MAX_FILES_LIMIT>>)
  ELSE IF total_files >= WARNING_THRESHOLD
  THEN Msg("Warning: Analysis may take some time", <<total_files>>)
  ELSE Msg("Selected paths containing code files", <<n_paths, total_files>>)

\* The message of select_paths for a count.
selection_message(n_paths, total_files) ==
  IF exceeds_limit(total_files) THEN Msg("exceeds the maximum limit", <<total_files, MAX_FILES_LIMIT>>)
  ELSE IF total_files > WARNING_THRESHOLD THEN Msg("Warning: Analysis may take some time", <<total_files>>)
  ELSE Msg("Selected paths containing code files", <<n_paths, total_files>>)

\* A handler's HTTPException: the registry is not touched.
Reject(op, job_id, code) ==
  /\ response' = [op |-> op, code |-> code, job_id |-> job_id]
  /\ UNCHANGED <<analysis_jobs, fetch_log, disk, ready, cur, world, external, awaiting>>

\* POST /select
select_paths(job_id, paths) ==
  /\ Loop_idle
  /\ IF job_id \notin DOMAIN analysis_jobs THEN Reject("select", job_id, 404)
     ELSE IF "repo_path" \notin DOMAIN analysis_jobs[job_id] THEN Reject("select", job_id, 400)
     ELSE
       LET job_data == analysis_jobs[job_id]
           counted  == count_files_in_paths(disk, job_data.repo_path, paths, code_extensions)
           reply    == [op |-> "select", code |-> 200, job_id |-> job_id,
                        selected_paths |-> paths, total_files |-> counted.total_files,
                        message |-> selection_message(Len(paths), counted.total_files)]
       IN  /\ response' = reply
           /\ IF exceeds_limit(counted.total_files)
              THEN UNCHANGED <<analysis_jobs, fetch_log, awaiting>>
              ELSE Write(job_id, SelectionRecord(job_data, paths, counted.file_paths),
                         [selected |-> TRUE, run_on_selection |-> FALSE])
           /\ UNCHANGED <<disk, ready, cur, world, external, awaiting>>

\* random.sample(all_files, k): any k distinct entries in any order.
RECURSIVE Samples(_, _)
Samples(S, k) ==
  IF k = 0 THEN { << >> }
  ELSE UNION { { <<x>> \o t : t \in Samples(S \ {x}, k - 1) } : x \in S }

\* Sampling that does not apply the extension filter.
sample_files_from_directory_unfiltered(d, h, directory_path, sample_size, extensions) ==
  IF ~isdir(d, h, directory_path) THEN { << >> }
  ELSE
    LET all_files == paths_of(walk(d, h, directory_path))
    IN  IF Len(all_files) <= sample_size THEN { all_files }
        ELSE Samples(Range(all_files), sample_size)

\* sample_files_from_directory: the lists it can return.
sample_files_from_directory(d, h, directory_path, sample_size, extensions) ==
  IF ~isdir(d, h, directory_path) THEN { << >> }
  ELSE
    LET all_files == paths_of(SelectSeq(walk(d, h, directory_path),
                                        LAMBDA f : matches(basename(f.path), extensions)))
    IN  IF Len(all_files) <= sample_size THEN { all_files }
        ELSE Samples(Range(all_files), sample_size)

SampleRecord(job_data, sampled_files) ==
  Merge(job_data, [selected_paths |-> sampled_files, file_paths |-> sampled_files])

SampleDirs ==
  CASE world = "big"  -> { GONE }
    [] world = "tree" -> { <<SRC>>, GONE, MAIN_PY }
    [] OTHER          -> { <<DOCS>> }

SampleSizes ==
  CASE world = "big"  -> { 50 }
    [] world = "tree" -> { 1, 2, 5 }
    [] OTHER          -> { 5 }

\* POST /sample
sample_directory(job_id, path, sample_size) ==
  /\ Loop_idle
  /\ IF job_id \notin DOMAIN analysis_jobs THEN Reject("sample", job_id, 404)
     ELSE IF "repo_path" \notin DOMAIN analysis_jobs[job_id] THEN Reject("sample", job_id, 400)
     ELSE
       LET job_data == analysis_jobs[job_id] IN
       \E sampled_files \in sample_files_from_directory(disk, job_data.repo_path, path,
                                                        sample_size, code_extensions) :
         /\ Write(job_id, SampleRecord(job_data, sampled_files),
                  [selected |-> TRUE, run_on_selection |-> FALSE])
         /\ response' = [op |-> "sample", code |-> 200, job_id |-> job_id, path |-> path,
                         sampled_files |-> sampled_files, sample_size |-> Len(sampled_files)]
         /\ UNCHANGED <<disk, ready, cur, world, external, awaiting>>

\* ---------------------------------------------------------------- browsing
\* get_subdirectory_sizes: one entry per immediate subdirectory that is not in
\* ignore_dirs, counted by an os.walk that descends into everything.
\* Variant: the subdirectories figure counting the immediate children only.
subdirectory_size_immediate(d, h, item_path) ==
  LET files == walk(d, h, item_path)
  IN  [path |-> item_path,
       name |-> basename(item_path),
       total_files |-> Len(files),
       code_files |-> Len(SelectSeq(files,
                            LAMBDA f : lower(splitext(basename(f.path))) \in code_extensions)),
       subdirectories |-> Cardinality({ n \in subdirs(d, h, item_path) : ~Ignored(n) })]

subdirectory_size(d, h, item_path) ==
  LET files == walk(d, h, item_path)
  IN  [path |-> item_path,
       name |-> basename(item_path),
       total_files |-> Len(files),
       code_files |-> Len(SelectSeq(files,
                            LAMBDA f : lower(splitext(basename(f.path))) \in code_extensions)),
       subdirectories |-> Cardinality({ q \in d[h].dirs :
                                          /\ IsPrefix(item_path, q) /\ q # item_path
                                          /\ ~Ignored(basename(q)) })]

get_subdirectory_sizes(d, h, parent_path) ==
  IF ~isdir(d, h, parent_path) THEN << >>
  ELSE LET ds == SeqOfSet({ n \in subdirs(d, h, parent_path) : ~Ignored(n) })
       IN  [i \in DOMAIN ds |-> subdirectory_size(d, h, parent_path \o <<ds[i]>>)]

\* The directories the browsing requests name.
BrowsePaths == { << >>, <<SRC>>, <<NODE>>, GONE, MAIN_PY }

\* Variant: a listing that finds no directory fails the job.
explore_directory_fails(job_id, path) ==
  /\ Loop_idle
  /\ IF job_id \notin DOMAIN analysis_jobs THEN Reject("explore", job_id, 404)
     ELSE IF "repo_path" \notin DOMAIN analysis_jobs[job_id] THEN Reject("explore", job_id, 400)
     ELSE
       LET contents == get_directory_contents(disk, analysis_jobs[job_id].repo_path, path)
       IN  IF "error" \in DOMAIN contents
           THEN /\ response' = [op |-> "explore", code |-> 400, job_id |-> job_id,
                                detail |-> contents.error]
                /\ Put(job_id, Merge(analysis_jobs[job_id],
                                     [status |-> FAILED, error |-> contents.error]))
                /\ UNCHANGED <<disk, ready, cur, world, external, awaiting>>
           ELSE /\ response' = [op |-> "explore", code |-> 200, job_id |-> job_id,
                                contents |-> contents]
                /\ UNCHANGED <<analysis_jobs, fetch_log, disk, ready, cur, world, external,
                               awaiting>>

\* POST /explore
explore_directory(job_id, path) ==
  /\ Loop_idle
  /\ IF job_id \notin DOMAIN analysis_jobs THEN Reject("explore", job_id, 404)
     ELSE IF "repo_path" \notin DOMAIN analysis_jobs[job_id] THEN Reject("explore", job_id, 400)
     ELSE
       LET contents == get_directory_contents(disk, analysis_jobs[job_id].repo_path, path)
       IN  /\ response' = IF "error" \in DOMAIN contents
                          THEN [op |-> "explore", code |-> 400, job_id |-> job_id,
                                detail |-> contents.error]
                          ELSE [op |-> "explore", code |-> 200, job_id |-> job_id,
                                contents |-> contents]
           /\ UNCHANGED <<analysis_jobs, fetch_log, disk, ready, cur, world, external, awaiting>>

\* POST /directory-sizes
get_directory_sizes(job_id, path) ==
  /\ Loop_idle
  /\ IF job_id \notin DOMAIN analysis_jobs THEN Reject("sizes", job_id, 404)
     ELSE IF "repo_path" \notin DOMAIN analysis_jobs[job_id] THEN Reject("sizes", job_id, 400)
     ELSE
       LET directories == get_subdirectory_sizes(disk, analysis_jobs[job_id].repo_path, path)
       IN  /\ response' = [op |-> "sizes", code |-> 200, job_id |-> job_id,
                           directories |-> directories, total_count |-> Len(directories)]
           /\ UNCHANGED <<analysis_jobs, fetch_log, disk, ready, cur, world, external, awaiting>>

\* --------------------------------------------------------------- analysis
\* read_file_content: the text, reduced to its number of lines; a file over
\* max_size or one that cannot be read yields a one-line message instead.
read_file_content(d, h, p) ==
  IF ~isfile(d, h, p) THEN [lines |-> 1]
  ELSE LET f == entry(d, h, p)
       IN  IF f.size > 1000000 THEN [lines |-> 1] ELSE [lines |-> f.lines]

\* analyze_code_file: the critiques that depend on the file's length; the
\* snapshots' texts hold none of the patterns the other critiques look for.
analyze_code_file(content) ==
  IF content.lines > 500 THEN << "This file has over 500 lines." >>
  ELSE << "This code looks suspiciously adequate." >>

FileResult(d, h, p) ==
  [type |-> "file", critiques |-> analyze_code_file(read_file_content(d, h, p))]

\* The extensions analyze_selected_paths keeps inside a directory.
path_extensions ==
  { ".py", ".js", ".jsx", ".ts", ".tsx", ".java", ".c", ".cpp",
    ".cs", ".go", ".rb", ".php", ".html", ".css" }

\* Variant: a directory's result keeping the files of every extension.
PathResult_every_file(d, h, path) ==
  IF isfile(d, h, path) THEN FileResult(d, h, path)
  ELSE IF isdir(d, h, path)
  THEN [type |-> "directory",
        files |-> [q \in { f.path : f \in Range(walk(d, h, path)) } |-> FileResult(d, h, q)]]
  ELSE [type |-> "error", message |-> "Path not found"]

\* analyze_selected_paths, lines 517-564: one result per selected path.
PathResult(d, h, path) ==
  IF isfile(d, h, path) THEN FileResult(d, h, path)
  ELSE IF isdir(d, h, path)
  THEN LET kept == { f \in Range(walk(d, h, path)) :
                       lower(splitext(basename(f.path))) \in path_extensions }
       IN  [type |-> "directory",
            files |-> [q \in { f.path : f \in kept } |-> FileResult(d, h, q)]]
  ELSE [type |-> "error", message |-> "Path not found"]

path_results(d, h, paths) ==
  [q \in Range(paths) |-> PathResult(d, h, q)]

QueuedRecord(job_data) ==
  Merge(job_data, [status |-> PENDING, message |-> Msg("Analysis queued", << >>)])

\* POST /analyze/paths
analyze_selected_paths_endpoint(job_id) ==
  /\ Loop_idle
  /\ IF job_id \notin DOMAIN analysis_jobs THEN Reject("analyze_paths", job_id, 404)
     ELSE IF "repo_path" \notin DOMAIN analysis_jobs[job_id]
     THEN Reject("analyze_paths", job_id, 400)
     ELSE IF "selected_paths" \notin DOMAIN analysis_jobs[job_id]
     THEN Reject("analyze_paths", job_id, 400)
     ELSE
       LET job_data == analysis_jobs[job_id] IN
       /\ Len(ready) < MaxReady
       /\ Put(job_id, QueuedRecord(job_data))
       /\ ready' = Append(ready, [kind |-> "paths", job_id |-> job_id,
                                  paths |-> job_data.selected_paths, pc |-> "begin",
                                  job_data |-> EmptyDict])
       /\ response' = [op |-> "analyze_paths", code |-> 200, job_id |-> job_id]
       /\ UNCHANGED <<disk, cur, world, external, awaiting>>

PathsAnalyzingRecord(job_data) ==
  Merge(job_data, [status |-> ANALYZING,
                   message |-> Msg("Analyzing selected paths...", << >>)])

\* Variant: the results merged into those the record already held.
PathsCompletedRecord_merges(job_data, results) ==
  Merge(job_data, [status |-> COMPLETED, message |-> Msg("Analysis completed", << >>),
                   analysis_results |-> Merge(Get(job_data, "analysis_results", EmptyDict),
                                              results)])

\* Variant: the final write of a path-analysis run without its status.
PathsCompletedRecord_unfinished(job_data, results) ==
  Merge(job_data, [message |-> Msg("Analysis completed", << >>),
                   analysis_results |-> results])

PathsCompletedRecord(job_data, results) ==
  Merge(job_data, [status |-> COMPLETED, message |-> Msg("Analysis completed", << >>),
                   analysis_results |-> results])

\* Variant: the except branch dropping the results gathered so far.
AnalysisFailedRecord_clears(job_data, error) ==
  Merge(job_data, [status |-> FAILED, message |-> Msg("Analysis failed", << >>),
                   error |-> error, analysis_results |-> EmptyDict])

\* Variant: the failure record written in place of the job's record.
AnalysisFailedRecord_bare(job_data, error) ==
  [status |-> FAILED, message |-> Msg("Analysis failed", << >>), error |-> error,
   job_id |-> job_data.job_id]

\* The except branch of both analysis procedures, for a job that has a record.
AnalysisFailedRecord(job_data, error) ==
  Merge(job_data, [status |-> FAILED, message |-> Msg("Analysis failed", << >>),
                   error |-> error])

\* analyze_selected_paths, lines 501-514, and 574-590 when the record has no repo_path
analyze_selected_paths_begin ==
  /\ cur.kind = "paths" /\ cur.pc = "begin"
  /\ LET job_data == analysis_jobs[cur.job_id] IN
       IF "repo_path" \notin DOMAIN job_data
       THEN /\ Put(cur.job_id,
                   AnalysisFailedRecord(job_data, "Repository not found. Please get the structure first."))
            /\ cur' = NoTask
       ELSE /\ Put(cur.job_id, PathsAnalyzingRecord(job_data))
            /\ cur' = [cur EXCEPT !.pc = "run", !.job_data = job_data]
  /\ UNCHANGED <<disk, ready, response, world, external, awaiting>>

\* lines 516-572: the results, and the record built from job_data as read at the start
analyze_selected_paths_run ==
  /\ cur.kind = "paths" /\ cur.pc = "run"
  /\ Put(cur.job_id,
         PathsCompletedRecord(cur.job_data,
                              path_results(disk, cur.job_data.repo_path, cur.paths)))
  /\ cur' = NoTask
  /\ UNCHANGED <<disk, ready, response, world, external, awaiting>>

\* ------------------------------------------------------------------ batches
\* (total_files + batch_size - 1) // batch_size
\* The batch count with floor division.
ceil_div_floor(total_files, batch_size) == total_files \div batch_size

ceil_div(total_files, batch_size) == (total_files + batch_size - 1) \div batch_size

BatchSizes ==
  CASE world = "big"   -> { 20 }
    [] world = "paths" -> { 2 }
    [] OTHER           -> { 5 }

\* POST /analyze/batch
analyze_in_batches(job_id, batch_size) ==
  /\ Loop_idle
  /\ IF job_id \notin DOMAIN analysis_jobs THEN Reject("analyze_batch", job_id, 404)
     ELSE IF "file_paths" \notin DOMAIN analysis_jobs[job_id]
     THEN Reject("analyze_batch", job_id, 400)
     ELSE
       LET total_files == Len(analysis_jobs[job_id].file_paths) IN
       /\ Len(ready) < MaxReady
       /\ ready' = Append(ready, [kind |-> "batch", job_id |-> job_id,
                                  batch_size |-> batch_size, pc |-> "begin",
                                  repo_path |-> 0, file_paths |-> << >>,
                                  total_files |-> 0, total_batches |-> 0,
                                  batch_idx |-> 0, batches |-> << >>, existed |-> {},
                                  prior |-> {}])
       /\ response' = [op |-> "analyze_batch", code |-> 200, job_id |-> job_id,
                       total_batches |-> ceil_div(total_files, batch_size),
                       total_files |-> total_files]
       /\ UNCHANGED <<analysis_jobs, fetch_log, disk, cur, world, external, awaiting>>

\* The first write of a batch run without the reset of analysis_results.
BatchStartRecord_keeps(job_data, total_files, total_batches) ==
  Merge(job_data, [status |-> ANALYZING,
                   message |-> Msg("Processing files in batches...", <<total_files, total_batches>>),
                   total_batches |-> total_batches,
                   completed_batches |-> 0,
                   analysis_results |-> Get(job_data, "analysis_results", EmptyDict)])

BatchStartRecord(job_data, total_files, total_batches) ==
  Merge(job_data, [status |-> ANALYZING,
                   message |-> Msg("Processing files in batches...", <<total_files, total_batches>>),
                   total_batches |-> total_batches,
                   completed_batches |-> 0,
                   analysis_results |-> EmptyDict])

\* file_paths[start_idx:end_idx]
batch_slice(file_paths, batch_idx, batch_size) ==
  SubSeq(file_paths, batch_idx * batch_size + 1,
         Min(batch_idx * batch_size + batch_size, Len(file_paths)))

\* lines 636-648: entries for the batch's paths that are files now
\* Variant: a listed path that is no file tagged as an error, as the path
\* analysis does.
batch_results_tagged(d, h, batch) ==
  [q \in Range(batch) |->
     IF isfile(d, h, q) THEN FileResult(d, h, q)
     ELSE [type |-> "error", message |-> "Path not found"]]

batch_results(d, h, batch) ==
  [q \in { x \in Range(batch) : isfile(d, h, x) } |-> FileResult(d, h, q)]

\* lines 629-656: the two writes of one batch
BatchProgressRecord(job_data, batch_idx, total_batches, start_idx, end_idx, total_files) ==
  Merge(job_data, [message |-> Msg("Processing batch",
                                   <<batch_idx + 1, total_batches, start_idx + 1, end_idx, total_files>>)])

\* Variant: a batch's results replacing those of the batches before it.
BatchDoneRecord_replaces(job_data, batch_idx, results) ==
  Merge(job_data, [completed_batches |-> batch_idx + 1, analysis_results |-> results])

\* Variant: the count of completed batches one behind.
BatchDoneRecord_behind(job_data, batch_idx, results) ==
  Merge(job_data, [completed_batches |-> batch_idx,
                   analysis_results |-> Merge(Get(job_data, "analysis_results", EmptyDict), results)])

BatchDoneRecord(job_data, batch_idx, results) ==
  Merge(job_data, [completed_batches |-> batch_idx + 1,
                   analysis_results |-> Merge(Get(job_data, "analysis_results", EmptyDict), results)])

BatchCompletedRecord(job_data, total_files, total_batches) ==
  Merge(job_data, [status |-> COMPLETED,
                   message |-> Msg("Analysis completed. Processed", <<total_files, total_batches>>)])

\* lines 600-621, and 666-675 when repo_path or file_paths is missing
analyze_selected_paths_in_batches_begin ==
  /\ cur.kind = "batch" /\ cur.pc = "begin"
  /\ LET job_data == analysis_jobs[cur.job_id] IN
       IF "repo_path" \notin DOMAIN job_data \/ "file_paths" \notin DOMAIN job_data
       THEN /\ Put(cur.job_id,
                   AnalysisFailedRecord(job_data, "Repository not found or no files selected."))
            /\ cur' = NoTask
       ELSE LET total_files   == Len(job_data.file_paths)
                total_batches == ceil_div(total_files, cur.batch_size)
            IN  /\ Write(cur.job_id, BatchStartRecord(job_data, total_files, total_batches),
                         [run_on_selection |-> TRUE])
                /\ cur' = [cur EXCEPT !.pc = "loop", !.repo_path = job_data.repo_path,
                                      !.file_paths = job_data.file_paths,
                                      !.total_files = total_files,
                                      !.total_batches = total_batches,
                                      !.prior = fetch_log[cur.job_id].last_batch]
  /\ UNCHANGED <<disk, ready, response, world, external, awaiting>>

\* lines 624-656: one iteration of the loop
analyze_selected_paths_in_batches_batch ==
  /\ cur.kind = "batch" /\ cur.pc = "loop"
  /\ cur.batch_idx < cur.total_batches
  /\ LET start_idx == cur.batch_idx * cur.batch_size
         end_idx   == Min(start_idx + cur.batch_size, cur.total_files)
         batch     == batch_slice(cur.file_paths, cur.batch_idx, cur.batch_size)
         progress  == BatchProgressRecord(analysis_jobs[cur.job_id], cur.batch_idx,
                                          cur.total_batches, start_idx, end_idx, cur.total_files)
         results   == batch_results(disk, cur.repo_path, batch)
     IN  /\ Put(cur.job_id, BatchDoneRecord(progress, cur.batch_idx, results))
         /\ cur' = [cur EXCEPT !.batch_idx = @ + 1,
                               !.batches = Append(@, batch),
                               !.existed = @ \cup { x \in Range(batch) :
                                                      isfile(disk, cur.repo_path, x) }]
  /\ UNCHANGED <<disk, ready, response, world, external, awaiting>>

\* lines 629-646 and 666-675: an exception escapes the processing of a batch
\* (nothing in the loop catches one, whatever raises it), after the progress
\* write and before the write of the batch's results.  The fault comes from
\* outside the program and counts as one of its environment's events.
analyze_selected_paths_in_batches_except ==
  /\ cur.kind = "batch" /\ cur.pc = "loop"
  /\ cur.batch_idx < cur.total_batches
  /\ external < MaxExternal
  /\ external' = external + 1
  /\ LET start_idx == cur.batch_idx * cur.batch_size
         end_idx   == Min(start_idx + cur.batch_size, cur.total_files)
         progress  == BatchProgressRecord(analysis_jobs[cur.job_id], cur.batch_idx,
                                          cur.total_batches, start_idx, end_idx, cur.total_files)
     IN  Put(cur.job_id, AnalysisFailedRecord(progress, "exception text"))
  /\ cur' = [cur EXCEPT !.pc = "failed"]
  /\ UNCHANGED <<disk, ready, response, world, awaiting>>

\* lines 658-664
analyze_selected_paths_in_batches_finish ==
  /\ cur.kind = "batch" /\ cur.pc = "loop"
  /\ cur.batch_idx >= cur.total_batches
  /\ Put(cur.job_id, BatchCompletedRecord(analysis_jobs[cur.job_id], cur.total_files,
                                          cur.total_batches))
  /\ cur' = [cur EXCEPT !.pc = "return"]
  /\ UNCHANGED <<disk, ready, response, world, external, awaiting>>

\* The coroutine returns.  batches, existed and prior are history kept for the
\* properties: the slices the loop took, the paths it found to be files, and
\* the entries the previous completed batch run had left.
analyze_selected_paths_in_batches_return ==
  /\ cur.kind = "batch" /\ cur.pc \in { "return", "failed" }
  /\ Note(cur.job_id,
          [last_batch |-> IF cur.pc = "return"
                          THEN DOMAIN analysis_jobs[cur.job_id].analysis_results
                          ELSE fetch_log[cur.job_id].last_batch])
  /\ cur' = NoTask
  /\ UNCHANGED <<disk, ready, response, world, external, awaiting>>

\* --------------------------------------------------------------- auto-roast
\* The path as the string os.path.relpath returns: "." for the root.
RECURSIVE PathChars(_)
PathChars(p) ==
  IF p = << >> THEN <<46>>
  ELSE IF Len(p) = 1 THEN NameChars(p[1])
  ELSE PathChars(dirname(p)) \o <<47>> \o NameChars(basename(p))

\* str.startswith
startswith(s, prefix) == Len(prefix) <= Len(s) /\ SubSeq(s, 1, Len(prefix)) = prefix

\* extensions / directories is None (or empty)
NoDirs == { }

\* is_in_specified_dirs(rel_root), with the guard "directories and not ..."
is_in_specified_dirs(rel_root, directories) ==
  directories = NoDirs \/ \E dir \in directories : startswith(PathChars(rel_root), dir)

\* ext if ext.startswith('.') else f'.{ext}', on the extensions requests give
dotted(ext) ==
  CASE ext = "py" -> ".py"
    [] ext = "js" -> ".js"
    [] OTHER -> ext

\* The first walk (lines 1120-1145) and the relaxed second walk (1148-1172).
primary_ok(f) ==
  /\ ~f.dangling
  /\ 500 <= f.size /\ f.size <= 15000
  /\ 50 <= f.lines /\ f.lines <= 500

\* Variant: the relaxed walk without its line bound.
fallback_ok_unbounded(f) == ~f.dangling

fallback_ok(f) == ~f.dangling /\ f.lines <= 1000

roast_walk(d, h, exts, directories, strict) ==
  SelectSeq(walk(d, h, << >>),
            LAMBDA f : /\ is_in_specified_dirs(dirname(f.path), directories)
                       /\ lower(splitext(basename(f.path))) \in exts
                       /\ IF strict THEN primary_ok(f) ELSE fallback_ok(f))

abs(x) == IF x < 0 THEN -x ELSE x

\* Variant: a score that puts the shortest files first.
complexity_score_shortest(f) == f.lines

\* complexity_score, times 100 to stay in the integers
complexity_score(f) == 100 * abs(f.lines - 200) + abs(f.size - 5000)

\* list.sort(key=complexity_score): stable, ascending
RECURSIVE insert_sorted(_, _)
insert_sorted(sorted, f) ==
  IF sorted = << >> THEN <<f>>
  ELSE IF complexity_score(Head(sorted)) <= complexity_score(f)
  THEN <<Head(sorted)>> \o insert_sorted(Tail(sorted), f)
  ELSE <<f>> \o sorted

RECURSIVE sort_by_score(_)
sort_by_score(fs) ==
  IF fs = << >> THEN << >>
  ELSE insert_sorted(sort_by_score(SubSeq(fs, 1, Len(fs) - 1)), fs[Len(fs)])

\* Variant: the relaxed walk whatever the first walk found.
roast_candidates_relaxed(d, h, request) ==
  LET exts    == IF request.extensions = NoFilter THEN code_extensions
                 ELSE { dotted(e) : e \in request.extensions }
      ordered == sort_by_score(roast_walk(d, h, exts, request.directories, FALSE))
  IN  SubSeq(ordered, 1, Min(request.file_count * 3, Len(ordered)))

\* code_files[:min(file_count*3, len(code_files))], file_count >= 0
roast_candidates(d, h, request) ==
  LET exts    == IF request.extensions = NoFilter THEN code_extensions
                 ELSE { dotted(e) : e \in request.extensions }
      strict  == roast_walk(d, h, exts, request.directories, TRUE)
      files   == IF Len(strict) < 5
                 THEN roast_walk(d, h, exts, request.directories, FALSE)
                 ELSE strict
      ordered == sort_by_score(files)
  IN  SubSeq(ordered, 1, Min(request.file_count * 3, Len(ordered)))

\* random.sample raises ValueError for a negative sample size.
sample_raises(request) == request.file_count < 0

\* random.sample(candidates, min(file_count, len(candidates))): the possible picks
roast_selections(d, h, request) ==
  LET candidates == roast_candidates(d, h, request)
  IN  Samples(Range(candidates), Min(request.file_count, Len(candidates)))

\* The auto-roast requests.  AutoRoastRequest puts no bound on file_count.
RoastRequests ==
  IF world = "roast"
  THEN { [style |-> "brutal", extensions |-> NoFilter, directories |-> NoDirs,
          file_count |-> 1, suggestions |-> "basic"],
         [style |-> "brutal", extensions |-> { "py" }, directories |-> { CodePoints("big") },
          file_count |-> 3, suggestions |-> "none"],
         [style |-> "brutal", extensions |-> { "py" }, directories |-> { CodePoints("pkg") },
          file_count |-> 1, suggestions |-> "none"],
         [style |-> "brutal", extensions |-> NoFilter, directories |-> NoDirs,
          file_count |-> 0, suggestions |-> "none"],
         [style |-> "brutal", extensions |-> NoFilter, directories |-> NoDirs,
          file_count |-> -1, suggestions |-> "none"] }
  ELSE IF world = "sibling"
  THEN { [style |-> "brutal", extensions |-> NoFilter, directories |-> { CodePoints("src") },
          file_count |-> 3, suggestions |-> "none"],
         [style |-> "brutal", extensions |-> { "py" }, directories |-> { CodePoints("src2") },
          file_count |-> 1, suggestions |-> "none"] }
  ELSE IF world = "whole"
  THEN { [style |-> "brutal", extensions |-> NoFilter, directories |-> { CodePoints("src2") },
          file_count |-> 1, suggestions |-> "none"],
         [style |-> "brutal", extensions |-> NoFilter, directories |-> NoDirs,
          file_count |-> -1, suggestions |-> "none"] }
  ELSE { [style |-> "brutal", extensions |-> NoFilter, directories |-> { CodePoints("src2") },
          file_count |-> 1, suggestions |-> "none"] }

\* get_llm_api_key: whether LLM_API_KEY is set in the process environment.
ApiKeySet == world # "nokey"

\* What roast_code_with_llm, generate_improvement_suggestions and
\* generate_repo_summary return: the service's text, or the error as text.
LlmOutcomes == { "text", "error text" }

RoastAnalyzingRecord(job_data) ==
  Merge(job_data, [status |-> ANALYZING,
                   message |-> Msg("Selecting files for critique...", << >>)])

RoastCompletedRecord(job_data, roasted_files, summary, request) ==
  Merge(job_data, [status |-> COMPLETED,
                   message |-> Msg("Critique completed", <<Len(roasted_files)>>),
                   roasted_files |-> roasted_files,
                   summary |-> summary,
                   style |-> request.style,
                   parameters |-> request])

\* Variant: the failure record of an auto-critique written in place of the
\* job's record, as the fetch procedures write theirs.
RoastFailedRecord_replaces(job_data, error) ==
  [status |-> FAILED, message |-> Msg("Auto-critique failed", << >>), error |-> error]

RoastFailedRecord(job_data, error) ==
  Merge(job_data, [status |-> FAILED, message |-> Msg("Auto-critique failed", << >>),
                   error |-> error])

\* Variant: a run in which an LLM call returned an error ends as a failed job.
auto_roast_finish_fails(job_id, job_data, roasted_files, summary, request, note) ==
  IF summary = "error text" \/ \E i \in DOMAIN roasted_files : roasted_files[i].roast = "error text"
  THEN /\ Write(job_id, RoastFailedRecord(job_data, "error text"), note)
       /\ response' = [op |-> "auto_roast", code |-> 500, job_id |-> job_id]
  ELSE /\ Write(job_id, RoastCompletedRecord(job_data, roasted_files, summary, request), note)
       /\ response' = [op |-> "auto_roast", code |-> 200, job_id |-> job_id,
                       roasted_files |-> roasted_files, summary |-> summary]

\* Variant: the final write built from the record as it is when written.
auto_roast_finish_fresh(job_id, job_data, roasted_files, summary, request, note) ==
  /\ Write(job_id, RoastCompletedRecord(analysis_jobs[job_id], roasted_files, summary, request),
           note)
  /\ response' = [op |-> "auto_roast", code |-> 200, job_id |-> job_id,
                  roasted_files |-> roasted_files, summary |-> summary]

\* lines 513-549: the final write and the response
auto_roast_finish(job_id, job_data, roasted_files, summary, request, note) ==
  /\ Write(job_id, RoastCompletedRecord(job_data, roasted_files, summary, request), note)
  /\ response' = [op |-> "auto_roast", code |-> 200, job_id |-> job_id,
                  roasted_files |-> roasted_files, summary |-> summary]

\* POST /auto-roast, up to its first call to the LLM service
auto_roast_repository(job_id, request) ==
  /\ Loop_idle
  /\ IF job_id \notin DOMAIN analysis_jobs THEN Reject("auto_roast", job_id, 404)
     ELSE IF "repo_path" \notin DOMAIN analysis_jobs[job_id]
     THEN Reject("auto_roast", job_id, 400)
     ELSE
       LET job_data == analysis_jobs[job_id]
           made     == [roasts |-> fetch_log[job_id].roasts + 1]
       IN
       /\ fetch_log[job_id].roasts < MaxRoasts
       /\ IF ~ApiKeySet
          THEN \* the ANALYZING write, then get_llm_api_key raises
               /\ Write(job_id, RoastFailedRecord(job_data, "LLM_API_KEY environment variable not set"), made)
               /\ response' = [op |-> "auto_roast", code |-> 500, job_id |-> job_id]
               /\ UNCHANGED awaiting
          ELSE IF sample_raises(request)
          THEN \* the ANALYZING write, then select_files_for_roasting raises
               /\ Write(job_id, RoastFailedRecord(job_data, "Sample larger than population or is negative"), made)
               /\ response' = [op |-> "auto_roast", code |-> 500, job_id |-> job_id]
               /\ UNCHANGED awaiting
          ELSE \E selected \in roast_selections(disk, job_data.repo_path, request) :
                 IF selected = << >>
                 THEN /\ auto_roast_finish(job_id, job_data, << >>, "None", request, made)
                      /\ UNCHANGED awaiting
                 ELSE /\ Write(job_id, RoastAnalyzingRecord(job_data), made)
                      /\ awaiting' = awaiting \cup
                           { [job_id |-> job_id, job_data |-> job_data, request |-> request,
                              selected |-> paths_of(selected), results |-> << >>,
                              phase |-> "roast", roast |-> ""] }
                      /\ UNCHANGED response
       /\ UNCHANGED <<disk, ready, cur, world, external>>

\* Variant: a summary asked for a single roasted file too.
needs_summary_any(roasted_files) == Len(roasted_files) > 0

\* line 508: generate_repo_summary is called for more than one roasted file
needs_summary(roasted_files) == Len(roasted_files) > 1

\* The awaited call returns and the handler runs to its next call or to its end.
auto_roast_resume(c, outcome) ==
  /\ Loop_idle
  /\ c \in awaiting
  /\ LET file_path == c.selected[Len(c.results) + 1]
         item(roast) == [path |-> file_path, roast |-> roast]
         item3(roast, suggestions) ==
           [path |-> file_path, roast |-> roast, suggestions |-> suggestions]
         \* after a file's tuple is appended: the next file, the summary, or the end
         after(results) ==
           IF Len(results) < Len(c.selected)
           THEN /\ awaiting' = (awaiting \ {c}) \cup
                                 { [c EXCEPT !.results = results, !.phase = "roast"] }
                /\ UNCHANGED <<analysis_jobs, fetch_log, response>>
           ELSE IF needs_summary(results)
           THEN /\ awaiting' = (awaiting \ {c}) \cup
                                 { [c EXCEPT !.results = results, !.phase = "summary"] }
                /\ UNCHANGED <<analysis_jobs, fetch_log, response>>
           ELSE /\ awaiting' = awaiting \ {c}
                /\ auto_roast_finish(c.job_id, c.job_data, results, "None", c.request, EmptyDict)
     IN  CASE c.phase = "roast" ->
                IF c.request.suggestions # "none"
                THEN /\ awaiting' = (awaiting \ {c}) \cup
                                      { [c EXCEPT !.phase = "suggest", !.roast = outcome] }
                     /\ UNCHANGED <<analysis_jobs, fetch_log, response>>
                ELSE after(Append(c.results, item(outcome)))
           [] c.phase = "suggest" ->
                after(Append(c.results, item3(c.roast, outcome)))
           [] c.phase = "summary" ->
                /\ awaiting' = awaiting \ {c}
                /\ auto_roast_finish(c.job_id, c.job_data, c.results, outcome, c.request, EmptyDict)
  /\ UNCHANGED <<disk, ready, cur, world, external>>

\* ------------------------------------------------------- reading a job
\* The GET handlers: they answer from the record and change nothing.
Reply(reply) ==
  /\ response' = reply
  /\ UNCHANGED <<analysis_jobs, fetch_log, disk, ready, cur, world, external, awaiting>>

\* GET /analyze/status/{job_id}
get_analysis_status(job_id) ==
  /\ Loop_idle
  /\ IF job_id \notin DOMAIN analysis_jobs THEN Reject("analysis_status", job_id, 404)
     ELSE
       LET job_data == analysis_jobs[job_id] IN
       IF job_data.status # COMPLETED
       THEN Reply([op |-> "analysis_status", code |-> 400, job_id |-> job_id,
                   detail |-> Msg("Job not completed yet. Current status:",
                                  <<job_data.status>>)])
       ELSE Reply([op |-> "analysis_status", code |-> 200, job_id |-> job_id,
                   repo_url |-> Get(job_data, "repo_url", ""),
                   total_files |-> Get(job_data, "total_files", 0),
                   file_stats |-> Get(job_data, "file_stats", EmptyDict),
                   message |-> Get(job_data, "message", "")])

\* GET /analyze/paths/{job_id}
get_path_analysis_results(job_id) ==
  /\ Loop_idle
  /\ IF job_id \notin DOMAIN analysis_jobs THEN Reject("paths_results", job_id, 404)
     ELSE
       LET job_data == analysis_jobs[job_id] IN
       Reply([op |-> "paths_results", code |-> 200, job_id |-> job_id,
              status |-> Get(job_data, "status", FAILED),
              message |-> Get(job_data, "message", ""),
              analysis_results |-> Get(job_data, "analysis_results", "None"),
              error |-> Get(job_data, "error", "None")])

\* GET /structure/{job_id}
get_structure_status(job_id) ==
  /\ Loop_idle
  /\ IF job_id \notin DOMAIN analysis_jobs THEN Reject("structure_status", job_id, 404)
     ELSE
       LET job_data == analysis_jobs[job_id] IN
       Reply([op |-> "structure_status", code |-> 200, job_id |-> job_id,
              status |-> Get(job_data, "status", FAILED),
              repo_url |-> Get(job_data, "repo_url", "None"),
              structure |-> Get(job_data, "structure", "None"),
              message |-> Get(job_data, "message", ""),
              error |-> Get(job_data, "error", "None")])

\* lines 440-443: None, or the percentage, here rounded down to an integer
progress_percentage(completed_batches, total_batches) ==
  IF total_batches > 0
  THEN [percent |-> (completed_batches * 100) \div total_batches]
  ELSE [none |-> TRUE]

\* GET /analyze/progress/{job_id}
get_analysis_progress(job_id) ==
  /\ Loop_idle
  /\ IF job_id \notin DOMAIN analysis_jobs THEN Reject("progress", job_id, 404)
     ELSE
       LET job_data          == analysis_jobs[job_id]
           total_batches     == Get(job_data, "total_batches", 0)
           completed_batches == Get(job_data, "completed_batches", 0)
       IN  Reply([op |-> "progress", code |-> 200, job_id |-> job_id,
                  status |-> Get(job_data, "status", PENDING),
                  message |-> Get(job_data, "message", ""),
                  total_files |-> Len(Get(job_data, "file_paths", << >>)),
                  completed_files |->
                    Cardinality(DOMAIN Get(job_data, "analysis_results", EmptyDict)),
                  total_batches |-> total_batches,
                  completed_batches |-> completed_batches,
                  progress_percentage |->
                    progress_percentage(completed_batches, total_batches),
                  error |-> Get(job_data, "error", "None")])

\* ------------------------------------------------------------ environment
\* Files something outside the program may remove from a snapshot.
Removable == { <<SRC, Nm("app", 0, ".py")>>, <<PKG, Nm("f", 1, ".py")>> }

external_remove(h, p) ==
  /\ external < MaxExternal
  /\ isfile(disk, h, p)
  /\ disk' = [disk EXCEPT ![h].files = SelectSeq(@, LAMBDA f : f.path # p)]
  /\ external' = external + 1
  /\ UNCHANGED <<analysis_jobs, fetch_log, ready, cur, response, world, awaiting>>

Fetch ==
  \/ \E u \in Urls : analyze_repository_async(u)
  \/ \E u \in Urls : get_repository_structure(u)
  \/ task_start
  \/ process_repository_async_begin
  \/ process_repository_async_clone
  \/ process_repository_async_work
  \/ process_repository_async_except
  \/ process_repository_async_cleanup
  \/ process_repository_async_return
  \/ process_repository_structure_begin
  \/ process_repository_structure_clone
  \/ process_repository_structure_work
  \/ process_repository_structure_except
  \/ process_repository_structure_cleanup
  \/ process_repository_structure_return

Select ==
  \/ \E j \in Jobs, sel \in Selections : select_paths(j, sel)
  \/ \E j \in Jobs, p \in SampleDirs, n \in SampleSizes : sample_directory(j, p, n)

Analyze ==
  \/ \E j \in Jobs : analyze_selected_paths_endpoint(j)
  \/ analyze_selected_paths_begin
  \/ analyze_selected_paths_run
  \/ \E j \in Jobs, b \in BatchSizes : analyze_in_batches(j, b)
  \/ analyze_selected_paths_in_batches_begin
  \/ analyze_selected_paths_in_batches_batch
  \/ analyze_selected_paths_in_batches_except
  \/ analyze_selected_paths_in_batches_finish
  \/ analyze_selected_paths_in_batches_return

Roast ==
  \/ \E j \in Jobs, r \in RoastRequests : auto_roast_repository(j, r)
  \/ \E c \in awaiting, o \in LlmOutcomes : auto_roast_resume(c, o)

Environment ==
  \E h \in DOMAIN disk, p \in Removable : external_remove(h, p)

Next == Fetch \/ Select \/ Analyze \/ Roast

Spec == Init /\ [][Next]_vars

\* The service without LLM_API_KEY.
RoastNoKey == \E j \in Jobs, r \in RoastRequests : auto_roast_repository(j, r)

NextNoKey == Fetch \/ Select \/ Analyze \/ RoastNoKey

SpecNoKey == InitWorld("nokey") /\ [][NextNoKey]_vars

\* A repository with a dangling symbolic link in its root.
NextLink == Fetch \/ Select \/ Analyze

SpecLink == InitWorld("link") /\ [][NextLink]_vars

\* A repository large enough for the selection limits and several batches.
Batch ==
  \/ \E j \in Jobs, b \in BatchSizes : analyze_in_batches(j, b)
  \/ analyze_selected_paths_in_batches_begin
  \/ analyze_selected_paths_in_batches_batch
  \/ analyze_selected_paths_in_batches_except
  \/ analyze_selected_paths_in_batches_finish
  \/ analyze_selected_paths_in_batches_return

StructureFetch ==
  \/ \E u \in Urls : get_repository_structure(u)
  \/ task_start
  \/ process_repository_structure_begin
  \/ process_repository_structure_clone
  \/ process_repository_structure_work
  \/ process_repository_structure_except
  \/ process_repository_structure_cleanup
  \/ process_repository_structure_return

NextBig == StructureFetch \/ Select \/ Batch \/ Environment

SpecBig == InitWorld("big") /\ [][NextBig]_vars

\* Batches of two files over short selections, files being removed from
\* outside between the selection and the batch that reaches them.
SpecGone == InitWorld("paths") /\ [][NextBig]_vars

\* A repository with a dependency cache nested in a source directory, browsed.
Browse ==
  \/ \E j \in Jobs, p \in BrowsePaths : explore_directory(j, p)
  \/ \E j \in Jobs, p \in BrowsePaths : get_directory_sizes(j, p)

NextTree == Fetch \/ Select \/ Browse

SpecTree == InitWorld("tree") /\ [][NextTree]_vars

\* Path analysis of selections that name a directory, files, a missing path
\* and a path twice, files being removed from outside meanwhile.
Paths ==
  \/ \E j \in Jobs : analyze_selected_paths_endpoint(j)
  \/ analyze_selected_paths_begin
  \/ analyze_selected_paths_run

NextPaths == StructureFetch \/ Select \/ Paths \/ Environment
SpecPaths == InitWorld("paths") /\ [][NextPaths]_vars

\* Selections registered while an auto-critique of the same job is under way.
NextLost == StructureFetch \/ Select \/ Roast
SpecLost == InitWorld("roast") /\ [][NextLost]_vars

\* The event loop runs every task it was given, and every call a background
\* procedure makes returns or raises: each step of a started or queued task is
\* eventually taken.  Requests and outside events may or may not come.
BackgroundSteps ==
  \/ task_start
  \/ process_repository_async_begin
  \/ process_repository_async_clone
  \/ process_repository_async_work
  \/ process_repository_async_except
  \/ process_repository_async_cleanup
  \/ process_repository_async_return
  \/ process_repository_structure_begin
  \/ process_repository_structure_clone
  \/ process_repository_structure_work
  \/ process_repository_structure_except
  \/ process_repository_structure_cleanup
  \/ process_repository_structure_return
  \/ analyze_selected_paths_begin
  \/ analyze_selected_paths_run
  \/ analyze_selected_paths_in_batches_begin
  \/ analyze_selected_paths_in_batches_batch
  \/ analyze_selected_paths_in_batches_finish
  \/ analyze_selected_paths_in_batches_return

FairLink == SpecLink /\ WF_vars(BackgroundSteps)

\* The jobs of the repository with the dangling link, read at any idle moment.
\* An unknown id is read too.
ReadIds == Jobs \cup { 2 }

Read ==
  \/ \E j \in ReadIds : get_analysis_status(j)
  \/ \E j \in ReadIds : get_path_analysis_results(j)
  \/ \E j \in ReadIds : get_structure_status(j)
  \/ \E j \in ReadIds : get_analysis_progress(j)

NextRead == NextLink \/ Read
SpecRead == InitWorld("link") /\ [][NextRead]_vars

\* Every operation that works on a fetched job, with the failures of the batch
\* procedure and of the auto-critique.
NextWhole == StructureFetch \/ Select \/ Analyze \/ Roast
SpecWhole == InitWorld("whole") /\ [][NextWhole]_vars

\* Batch runs requested while an auto-critique of the same job is under way.
NextStale == StructureFetch \/ Select \/ Batch \/ Roast
SpecStale == InitWorld("whole") /\ [][NextStale]_vars

\* Two jobs, each fetched, selected, analysed in batches and critiqued, in any
\* interleaving.
NextPair ==
  \/ StructureFetch
  \/ \E j \in Jobs, sel \in Selections : select_paths(j, sel)
  \/ Batch
  \/ Roast
SpecPair == InitWorld("pair") /\ [][NextPair]_vars

\* A job fetched, selected, analysed by paths and in batches, and asked for
\* its progress.
NextProgress ==
  \/ StructureFetch
  \/ \E j \in Jobs, sel \in Selections : select_paths(j, sel)
  \/ Analyze
  \/ \E j \in Jobs : get_analysis_progress(j)
SpecProgress == InitWorld("paths") /\ [][NextProgress]_vars

\* The auto-critique of a fetched repository, the service key being set.
NextRoast == StructureFetch \/ Roast
SpecRoast == InitWorld("roast") /\ [][NextRoast]_vars

\* The auto-critique restricted to src, of a repository that also holds src2.
SpecSibling == InitWorld("sibling") /\ [][NextRoast]_vars

\* ------------------------------------------------------------- properties

Terminal == { COMPLETED, FAILED }

\* C1, as the specification states it: once a job's status is COMPLETED or
\* FAILED, no later step (path analysis, batch analysis, auto-critique,
\* selection, sampling) changes that status.
C1_TerminalStatusNeverChanges ==
  [][\A j \in DOMAIN analysis_jobs :
       analysis_jobs[j].status \in Terminal
         => analysis_jobs'[j].status = analysis_jobs[j].status]_vars

\* C1, as the code has it: the status of a COMPLETED or FAILED job changes
\* only if the job still has a repo_path, and only in a step of the
\* path-analysis request or procedure, the batch-analysis procedure or the
\* auto-critique operation for that job; registering a selection or a sample,
\* and every step on a job without repo_path, leave the status as it is.
C1_OnlyAnalysesLeaveTerminal ==
  [][\A j \in DOMAIN analysis_jobs :
       (/\ analysis_jobs[j].status \in Terminal
        /\ analysis_jobs'[j].status # analysis_jobs[j].status)
         => /\ "repo_path" \in DOMAIN analysis_jobs[j]
            /\ \/ analyze_selected_paths_endpoint(j)
               \/ cur.kind = "paths" /\ cur.job_id = j /\ analyze_selected_paths_begin
               \/ cur.kind = "batch" /\ cur.job_id = j
                    /\ analyze_selected_paths_in_batches_begin
               \/ \E r \in RoastRequests : auto_roast_repository(j, r)
               \/ \E c \in awaiting, o \in LlmOutcomes :
                    c.job_id = j /\ auto_roast_resume(c, o)]_vars

\* A job whose fetch procedure has finished is PENDING again: a path analysis
\* was queued on it.
C1_Witness ==
  \E j \in DOMAIN analysis_jobs :
    /\ fetch_log[j].finished
    /\ "repo_path" \in DOMAIN analysis_jobs[j]
    /\ analysis_jobs[j].status = PENDING

\* The status sequences of a fetch procedure.
FetchSequences ==
  { <<PENDING, CLONING, ANALYZING, COMPLETED>>,
    <<PENDING, CLONING, ANALYZING, FAILED>>,
    <<PENDING, CLONING, FAILED>> }

\* C2: during a job's fetch procedure its status goes PENDING, CLONING, then
\* ANALYZING only if the clone succeeded, then exactly one of COMPLETED and
\* FAILED, with which the procedure ends; no status is followed by an earlier
\* one, and COMPLETED is reached only after a successful clone.
C2_FetchStatusSequence ==
  \A j \in DOMAIN fetch_log :
    LET log  == fetch_log[j]
        seen == log.statuses
    IN  /\ \E full \in FetchSequences : IsPrefix(seen, full)
        /\ (ANALYZING \in Range(seen)) => log.cloned
        /\ (COMPLETED \in Range(seen)) => log.cloned
        /\ log.finished => seen[Len(seen)] \in Terminal
        /\ ~log.finished => analysis_jobs[j].status = seen[Len(seen)]

\* A fetch procedure has finished after PENDING, CLONING, ANALYZING, COMPLETED.
C2_Witness ==
  \E j \in DOMAIN fetch_log :
    /\ fetch_log[j].finished
    /\ fetch_log[j].statuses = <<PENDING, CLONING, ANALYZING, COMPLETED>>

\* A batch run has written COMPLETED and has not yet returned.
BatchRunDone == cur.kind = "batch" /\ cur.pc = "return"

\* C3, as the specification states it: when a batch run that produced entries
\* completes after an earlier completed batch run on the same job, with a
\* selection disjoint from the earlier one registered in between,
\* analysis_results holds the entries of both runs.
C3_SecondRunKeepsFirst ==
  (/\ BatchRunDone
   /\ cur.prior # {} /\ cur.existed # {}
   /\ cur.prior \cap Range(cur.file_paths) = {})
    => (cur.prior \cup cur.existed) \subseteq
          DOMAIN analysis_jobs[cur.job_id].analysis_results

\* C3, as the code has it: a batch run empties analysis_results when it
\* starts, so when it completes analysis_results holds exactly the entries of
\* this run (the listed paths that were files when their batch was processed)
\* and none of an earlier run.
C3_RunReplacesResults ==
  BatchRunDone
    => DOMAIN Get(analysis_jobs[cur.job_id], "analysis_results", EmptyDict) = cur.existed

\* A second batch run with a disjoint selection has completed with entries.
C3_Witness ==
  /\ BatchRunDone
  /\ cur.prior # {}
  /\ cur.existed # {}
  /\ cur.prior \cap Range(cur.file_paths) = {}

\* C4: a batch run over L paths with batch size B computes total_batches as
\* the least n with n * B >= L, processes that many consecutive slices of the
\* list (B paths each, the last one the rest), and at COMPLETED has
\* completed_batches = total_batches and an entry for every listed path that
\* was a file when its batch was processed.
C4_BatchRun ==
  (cur.kind = "batch" /\ cur.pc \in {"loop", "return"})
    => LET rec == analysis_jobs[cur.job_id]
           L   == Len(cur.file_paths)
           B   == cur.batch_size
           n   == CHOOSE k \in 0..L : k * B >= L /\ (k = 0 \/ (k - 1) * B < L)
       IN  /\ rec.total_batches = n
           /\ rec.completed_batches = Len(cur.batches)
           /\ \A i \in DOMAIN cur.batches :
                cur.batches[i] = SubSeq(cur.file_paths, (i - 1) * B + 1, Min(i * B, L))
           /\ cur.pc = "return"
                => /\ rec.status = COMPLETED
                   /\ rec.completed_batches = rec.total_batches
                   /\ Len(cur.batches) = n
                   /\ cur.existed \subseteq DOMAIN rec.analysis_results

\* A run of three batches whose last slice is shorter than the others has
\* completed, and a listed path was no file when its batch was processed.
C4_Witness ==
  /\ BatchRunDone
  /\ Len(cur.batches) = 3
  /\ Len(cur.batches[3]) < cur.batch_size
  /\ Range(cur.file_paths) \ cur.existed # {}

\* A fetch procedure has ended without a successful clone.
FetchFailed(j) == fetch_log[j].finished /\ ~fetch_log[j].cloned

\* C5, as the specification states it: a fetch procedure whose clone failed
\* ends with status FAILED, a non-empty error and no repo_path, and the
\* directory made for that clone does not remain.
C5_FailedFetchLeavesNothing ==
  \A j \in DOMAIN fetch_log :
    FetchFailed(j)
      => /\ analysis_jobs[j].status = FAILED
         /\ "error" \in DOMAIN analysis_jobs[j] /\ analysis_jobs[j].error # ""
         /\ "repo_path" \notin DOMAIN analysis_jobs[j]
         /\ ~exists(disk, fetch_log[j].handle)

\* C5, as the code has it: the record is as stated, and the directory made
\* for the clone remains only if removing it failed (rmtree ignores errors).
C5_FailedFetchRemovesIfItCan ==
  \A j \in DOMAIN fetch_log :
    FetchFailed(j)
      => /\ analysis_jobs[j].status = FAILED
         /\ "error" \in DOMAIN analysis_jobs[j] /\ analysis_jobs[j].error # ""
         /\ "repo_path" \notin DOMAIN analysis_jobs[j]
         /\ exists(disk, fetch_log[j].handle) => fetch_log[j].leaked

\* A fetch has failed and its directory is gone.
C5_Witness ==
  \E j \in DOMAIN fetch_log :
    /\ FetchFailed(j)
    /\ fetch_log[j].handle # 0
    /\ ~exists(disk, fetch_log[j].handle)

\* C6, as the specification states it: when the clone of a structure-only
\* fetch succeeds, the procedure ends with status COMPLETED, a structure with
\* a directories list and a files list, repo_path set and the snapshot in
\* place, also when listing the root directory reports an error.
C6_StructureHasBothLists ==
  (cur.kind = "structure" /\ cur.pc = "return" /\ fetch_log[cur.job_id].cloned)
    => LET rec == analysis_jobs[cur.job_id]
       IN  /\ rec.status = COMPLETED
           /\ "structure" \in DOMAIN rec
           /\ {"directories", "files"} \subseteq DOMAIN rec.structure
           /\ "repo_path" \in DOMAIN rec
           /\ exists(disk, rec.repo_path)

\* C7, as the specification states it: a job record has an error field only
\* while its status is FAILED.
C7_ErrorOnlyWhenFailed ==
  \A j \in DOMAIN analysis_jobs :
    "error" \in DOMAIN analysis_jobs[j] => analysis_jobs[j].status = FAILED

\* C8, as the specification states it: a job record has repo_path exactly if
\* the job's clone succeeded, whatever happened afterwards.
C8_RepoPathIffCloned ==
  \A j \in DOMAIN analysis_jobs :
    "repo_path" \in DOMAIN analysis_jobs[j] <=> fetch_log[j].cloned

\* C8, as the code has it: a job record has repo_path exactly if the job's
\* clone succeeded and its fetch procedure has not written FAILED; the
\* failure record of a fetch procedure has no repo_path even after a
\* successful clone.
C8_RepoPathIffClonedAndNotFailed ==
  \A j \in DOMAIN analysis_jobs :
    "repo_path" \in DOMAIN analysis_jobs[j]
      <=> (fetch_log[j].cloned /\ FAILED \notin Range(fetch_log[j].statuses))

\* A clone succeeded, a later step of the fetch procedure failed, and the
\* record has no repo_path.
C8_Witness ==
  \E j \in DOMAIN analysis_jobs :
    /\ fetch_log[j].cloned
    /\ fetch_log[j].finished
    /\ FAILED \in Range(fetch_log[j].statuses)
    /\ "repo_path" \notin DOMAIN analysis_jobs[j]

\* The count select_paths makes for a selection on a job with a snapshot.
Counted(j, sel) ==
  count_files_in_paths(disk, analysis_jobs[j].repo_path, sel, code_extensions).total_files

\* select_paths(j, sel) on a job that has a repo_path.
SelectStep(j, sel) ==
  /\ j \in DOMAIN analysis_jobs
  /\ "repo_path" \in DOMAIN analysis_jobs[j]
  /\ cur = NoTask /\ cur' = NoTask
  /\ response'.op = "select" /\ response'.code = 200
  /\ response'.selected_paths = sel
  /\ select_paths(j, sel)

\* C9: a selection request that matches more than 200 files changes nothing
\* in the registry, and only returns the message that the limit is exceeded.
C9_OverLimitLeavesRecord ==
  [][\A j \in Jobs, sel \in Selections :
       (SelectStep(j, sel) /\ Counted(j, sel) > 200)
         => /\ analysis_jobs' = analysis_jobs
            /\ response'.message.text = "exceeds the maximum limit"]_vars

\* A selection of more than 200 files has been answered.
C9_Witness ==
  /\ response.op = "select" /\ response.code = 200
  /\ response.total_files > 200
  /\ response.job_id \in DOMAIN analysis_jobs
  /\ Get(analysis_jobs[response.job_id], "selected_paths", << >>)
       # response.selected_paths

\* C10: a selection request is recorded exactly if it matches at most 200
\* files, and its reply carries a warning exactly if it matches more than 50;
\* a selection of 51 to 200 files is recorded and warned about.
C10_RecordedAndWarned ==
  [][\A j \in Jobs, sel \in Selections :
       SelectStep(j, sel)
         => LET n       == Counted(j, sel)
                plain   == response'.message.text = "Selected paths containing code files"
                listed  == count_files_in_paths(disk, analysis_jobs[j].repo_path, sel,
                                                code_extensions).file_paths
            IN  /\ response'.total_files = n
                /\ n <= 200 => /\ analysis_jobs'[j].selected_paths = sel
                               /\ analysis_jobs'[j].file_paths = listed
                               /\ Len(listed) = n
                /\ n > 200 => analysis_jobs'[j] = analysis_jobs[j]
                /\ ~plain <=> n > 50]_vars

\* A selection of exactly 200 files has been recorded, with a warning.
C10_Witness ==
  /\ response.op = "select" /\ response.code = 200
  /\ response.total_files = 200
  /\ response.message.text = "Warning: Analysis may take some time"
  /\ response.job_id \in DOMAIN analysis_jobs
  /\ Get(analysis_jobs[response.job_id], "selected_paths", << >>) = response.selected_paths
  /\ Len(Get(analysis_jobs[response.job_id], "file_paths", << >>)) = 200

\* The number of files one input path contributes when walked on its own: 1
\* for a matching file, the matching files beneath it for a directory.
WalkCount(d, h, path, extensions) ==
  IF isfile(d, h, path)
  THEN IF matches(basename(path), extensions) THEN 1 ELSE 0
  ELSE IF isdir(d, h, path)
  THEN Cardinality({ i \in DOMAIN d[h].files :
                       /\ IsPrefix(path, d[h].files[i].path)
                       /\ d[h].files[i].path # path
                       /\ matches(basename(d[h].files[i].path), extensions) })
  ELSE 0

RECURSIVE SumWalk(_, _, _, _)
SumWalk(d, h, paths, extensions) ==
  IF paths = << >> THEN 0
  ELSE WalkCount(d, h, Head(paths), extensions) + SumWalk(d, h, Tail(paths), extensions)

\* C11: for every selection that matches at most 200 files, the total_files
\* of the reply equals the count of an independent walk of the same input
\* paths with the same extension filter, and equals the length of the
\* file_paths list stored in the job record.
C11_TotalIsWalkCount ==
  [][\A j \in Jobs, sel \in Selections :
       SelectStep(j, sel)
         => LET n == SumWalk(disk, analysis_jobs[j].repo_path, sel, code_extensions)
            IN  n <= 200 => /\ response'.total_files = n
                            /\ Len(analysis_jobs'[j].file_paths) = n]_vars

\* A selection of a directory and a file, 51 files in all, has been stored.
C11_Witness ==
  /\ response.op = "select" /\ response.code = 200
  /\ response.total_files = 51
  /\ Len(response.selected_paths) = 2
  /\ response.job_id \in DOMAIN analysis_jobs
  /\ Len(Get(analysis_jobs[response.job_id], "file_paths", << >>)) = 51

\* The files beneath top that lie in no directory of the ignore set, at any depth.
CleanUnder(d, h, top) ==
  { i \in DOMAIN d[h].files :
      /\ IsPrefix(top, d[h].files[i].path)
      /\ d[h].files[i].path # top
      /\ \A k \in 1..(Len(d[h].files[i].path) - 1) : ~Ignored(d[h].files[i].path[k]) }

CleanCodeUnder(d, h, top) ==
  { i \in CleanUnder(d, h, top) :
      lower(splitext(basename(d[h].files[i].path))) \in code_extensions }

\* C12, as the specification states it: a directory of the ignore set, at any
\* depth, is never listed by the directory listing, and none of its files is
\* counted in the listing's per-directory file_count, in total_files and
\* code_files of the directory sizes, in the expansion of a selection, or in
\* the totals of the full analysis.
C12_IgnoredNeverCounted ==
  \A j \in DOMAIN analysis_jobs :
    ("repo_path" \in DOMAIN analysis_jobs[j] /\ exists(disk, analysis_jobs[j].repo_path))
      => LET rec == analysis_jobs[j]
             h   == rec.repo_path
         IN  /\ (response.op = "explore" /\ response.code = 200 /\ response.job_id = j)
                  => \A i \in DOMAIN response.contents.directories :
                       LET e == response.contents.directories[i]
                       IN  /\ ~Ignored(e.name)
                           /\ e.file_count = Cardinality(CleanUnder(disk, h, e.path))
             /\ (response.op = "sizes" /\ response.code = 200 /\ response.job_id = j)
                  => \A i \in DOMAIN response.directories :
                       LET e == response.directories[i]
                       IN  /\ ~Ignored(e.name)
                           /\ e.total_files = Cardinality(CleanUnder(disk, h, e.path))
                           /\ e.code_files = Cardinality(CleanCodeUnder(disk, h, e.path))
             /\ "file_paths" \in DOMAIN rec
                  => \A i \in DOMAIN rec.file_paths :
                       \A k \in 1..(Len(rec.file_paths[i]) - 1) : ~Ignored(rec.file_paths[i][k])
             /\ "file_stats" \in DOMAIN rec
                  => rec.total_files = Cardinality(CleanUnder(disk, h, << >>))

\* sample_directory(j, p, n) on a job that has a repo_path.
SampleStep(j, p, n) ==
  /\ j \in DOMAIN analysis_jobs
  /\ "repo_path" \in DOMAIN analysis_jobs[j]
  /\ response'.op = "sample" /\ response'.code = 200
  /\ response'.path = p
  /\ sample_directory(j, p, n)

\* C15: sampling n >= 1 files of a directory returns exactly min(n, number of
\* files under the directory that match the extension filter) paths, pairwise
\* distinct, each matching the filter and lying under the directory, and the
\* empty list when the directory does not exist.
C15_SampleSizeAndMembers ==
  [][\A j \in Jobs, p \in SampleDirs, n \in SampleSizes :
       SampleStep(j, p, n)
         => LET h    == analysis_jobs[j].repo_path
                out  == response'.sampled_files
                pool == { f \in Range(disk[h].files) :
                            /\ IsPrefix(p, f.path) /\ f.path # p
                            /\ matches(basename(f.path), code_extensions) }
            IN  /\ Len(out) = Min(n, Cardinality(pool))
                /\ \A a, b \in DOMAIN out : a # b => out[a] # out[b]
                /\ \A a \in DOMAIN out : \E f \in pool : f.path = out[a]
                /\ ~isdir(disk, h, p) => out = << >>]_vars

\* Two of the four code files under src have been sampled.
C15_Witness ==
  /\ response.op = "sample" /\ response.code = 200
  /\ response.path = <<SRC>>
  /\ Len(response.sampled_files) = 2

\* ---------------------------------------------------- auto-critique selection
\* The step of POST /auto-roast for job j and request r, on a fetched repository.
RoastStep(j, r) ==
  /\ cur = NoTask
  /\ j \in DOMAIN analysis_jobs
  /\ "repo_path" \in DOMAIN analysis_jobs[j]
  /\ auto_roast_repository(j, r)

\* The paths that step selected: those of the handler it left suspended, or
\* none when it ended at once.
Picked ==
  IF awaiting' # awaiting
  THEN (CHOOSE c \in awaiting' \ awaiting : TRUE).selected
  ELSE << >>

\* The files of job j's snapshot that match the request's extension and
\* directory filters, and those of them within the bounds of each pass.
Matching(j, r) ==
  LET exts == IF r.extensions = NoFilter THEN code_extensions
              ELSE { dotted(e) : e \in r.extensions }
  IN  { f \in Range(disk[analysis_jobs[j].repo_path].files) :
          /\ lower(splitext(basename(f.path))) \in exts
          /\ is_in_specified_dirs(dirname(f.path), r.directories) }

InPrimaryBounds(f) ==
  500 <= f.size /\ f.size <= 15000 /\ 50 <= f.lines /\ f.lines <= 500

PrimaryPool(j, r) == { f \in Matching(j, r) : InPrimaryBounds(f) }

FallbackPool(j, r) == { f \in Matching(j, r) : f.lines <= 1000 }

PoolInForce(j, r) ==
  IF Cardinality(PrimaryPool(j, r)) >= 5 THEN PrimaryPool(j, r) ELSE FallbackPool(j, r)

Distinct(seq) == \A a, b \in DOMAIN seq : a # b => seq[a] # seq[b]

\* C13 (as stated): for a count that is not negative, the selection returns at
\* most that many files, all distinct, and at least the smaller of the count
\* and the number of files matching the extension and directory filters.
C13_AtLeastMinOfMatching ==
  [][\A j \in Jobs, r \in RoastRequests :
       (r.file_count >= 0 /\ RoastStep(j, r)) =>
         /\ Len(Picked) <= r.file_count
         /\ Len(Picked) >= Min(r.file_count, Cardinality(Matching(j, r)))
         /\ Distinct(Picked)]_vars

\* C13 (amended): for a count that is not negative, the selection returns
\* distinct files, at most that many, and exactly the smaller of the count and
\* the number of matching files within the bounds of the pass in force.
C13_MinOfPoolInForce ==
  [][\A j \in Jobs, r \in RoastRequests :
       (r.file_count >= 0 /\ RoastStep(j, r)) =>
         /\ Len(Picked) <= r.file_count
         /\ Len(Picked) = Min(r.file_count, Cardinality(PoolInForce(j, r)))
         /\ Distinct(Picked)]_vars

\* Three files asked of a directory with three matching files: two selected.
C13_Witness ==
  \E c \in awaiting :
    /\ c.request.file_count = 3
    /\ Cardinality(Matching(c.job_id, c.request)) = 3
    /\ Len(c.selected) = 2

\* C14: when five or more matching files pass the first pass, every selected
\* file is within its size and line bounds; with fewer, every selected file
\* comes from the relaxed pass: it matches the filters and has at most 1,000
\* lines.
C14_SelectedFromPassInForce ==
  [][\A j \in Jobs, r \in RoastRequests :
       (r.file_count >= 0 /\ RoastStep(j, r)) =>
         \A i \in DOMAIN Picked :
           \E f \in Matching(j, r) :
             /\ f.path = Picked[i]
             /\ IF Cardinality(PrimaryPool(j, r)) >= 5
                THEN InPrimaryBounds(f)
                ELSE f.lines <= 1000]_vars

\* A file selected by the first pass, and the relaxed pass being open to more.
C14_Witness ==
  \E c \in awaiting :
    /\ Cardinality(PrimaryPool(c.job_id, c.request)) >= 5
    /\ FallbackPool(c.job_id, c.request) # PrimaryPool(c.job_id, c.request)
    /\ Len(c.selected) = 1

\* ------------------------------------------------------- inside a batch run
\* The steps of a running batch task: an exception escaping batch k, one batch
\* processed, and any step after the task's first write.
BatchFailStep ==
  /\ cur.kind = "batch" /\ cur.pc = "loop"
  /\ cur'.kind = "batch" /\ cur'.pc = "failed"

BatchDoneStep ==
  /\ cur.kind = "batch" /\ cur.pc = "loop"
  /\ cur'.kind = "batch" /\ cur'.pc = "loop"
  /\ cur'.batch_idx = cur.batch_idx + 1

InBatchRun == cur.kind = "batch" /\ cur.pc # "begin"

\* C16: when batch k of a batch run fails, the job becomes FAILED with an error
\* text, completed_batches is k-1, analysis_results holds what batches 1..k-1
\* had merged and nothing else, and the task processes no later batch.
C16_FailureKeepsEarlierBatches ==
  /\ [][BatchFailStep =>
          LET job_data == analysis_jobs[cur.job_id]
              failed   == analysis_jobs'[cur.job_id]
              k        == cur.batch_idx + 1
          IN  /\ failed.status = FAILED
              /\ "error" \in DOMAIN failed /\ failed.error # ""
              /\ failed.completed_batches = k - 1
              /\ failed.analysis_results = job_data.analysis_results
              /\ DOMAIN failed.analysis_results = cur.existed
              /\ cur.existed \subseteq UNION { Range(cur.batches[i]) : i \in 1..(k - 1) }
              /\ Len(cur'.batches) = k - 1]_vars
  /\ [][(cur.kind = "batch" /\ cur.pc = "failed") =>
          (cur' \in { cur, NoTask } /\ analysis_jobs' = analysis_jobs)]_vars

\* A run of three batches that failed in its second batch.
C16_Witness ==
  /\ cur.kind = "batch" /\ cur.pc = "failed"
  /\ cur.total_batches = 3 /\ cur.batch_idx = 1
  /\ analysis_jobs[cur.job_id].status = FAILED
  /\ Cardinality(DOMAIN analysis_jobs[cur.job_id].analysis_results) = 20

\* C17: within one batch run the key set of analysis_results only grows: a
\* processed batch adds the paths of the batch that are files, and no step of
\* the run removes a key.
C17_ResultKeysOnlyGrow ==
  [][InBatchRun =>
       LET before == DOMAIN analysis_jobs[cur.job_id].analysis_results
           after  == DOMAIN analysis_jobs'[cur.job_id].analysis_results
       IN  /\ before \subseteq after
           /\ BatchDoneStep =>
                after = before \cup { x \in Range(cur'.batches[Len(cur'.batches)]) :
                                        isfile(disk, cur.repo_path, x) }]_vars

\* The third batch of a run about to be processed, two batches merged.
C17_Witness ==
  /\ cur.kind = "batch" /\ cur.pc = "loop" /\ cur.batch_idx = 2
  /\ cur.batch_idx < cur.total_batches
  /\ Cardinality(DOMAIN analysis_jobs[cur.job_id].analysis_results) = 40

\* C18: within one batch run total_batches never changes, and completed_batches
\* is 0 after the run's first write, grows by exactly one with each processed
\* batch and changes at no other step.
C18_BatchCounters ==
  /\ [][(cur.kind = "batch" /\ cur.pc = "begin" /\ cur'.kind = "batch" /\ cur'.pc = "loop") =>
          analysis_jobs'[cur.job_id].completed_batches = 0]_vars
  /\ [][InBatchRun =>
          LET job_data == analysis_jobs[cur.job_id]
              next     == analysis_jobs'[cur.job_id]
          IN  /\ next.total_batches = job_data.total_batches
              /\ next.total_batches = cur.total_batches
              /\ IF BatchDoneStep
                 THEN next.completed_batches = job_data.completed_batches + 1
                 ELSE next.completed_batches = job_data.completed_batches]_vars

\* All three batches of a run counted, the run not yet marked completed.
C18_Witness ==
  /\ cur.kind = "batch" /\ cur.pc = "loop"
  /\ analysis_jobs[cur.job_id].total_batches = 3
  /\ analysis_jobs[cur.job_id].completed_batches = 3
  /\ analysis_jobs[cur.job_id].status = ANALYZING

\* ------------------------------------------------ the calls of an auto-critique
\* The step in which the call suspended handler c awaits returns outcome o.
ResumeStep(c, o) == cur = NoTask /\ auto_roast_resume(c, o)

\* Whether that step ended the handler, and the handler it left suspended if not.
Ended(c) == awaiting' = awaiting \ {c}

Suspended == CHOOSE n \in awaiting' \ awaiting : TRUE

\* C19: a failing critique, suggestion or summary call does not fail the job:
\* its error text is stored where the call's text would be and the run ends
\* COMPLETED with an item for every selected file; an auto-critique makes a job
\* FAILED only in its setup, before any file is attempted (no service key, or a
\* selection that raises).
C19_FailedCallsDoNotFailJob ==
  /\ [][\A c \in awaiting, o \in LlmOutcomes :
          ResumeStep(c, o) =>
            LET i       == Len(c.results) + 1
                results == IF Ended(c) THEN analysis_jobs'[c.job_id].roasted_files
                           ELSE Suspended.results
            IN  /\ IF Ended(c)
                   THEN /\ analysis_jobs'[c.job_id].status = COMPLETED
                        /\ response'.code = 200
                        /\ paths_of(results) = c.selected
                   ELSE analysis_jobs' = analysis_jobs
                /\ (c.phase = "roast" /\ c.request.suggestions = "none") =>
                      results[i].roast = o
                /\ (c.phase = "roast" /\ c.request.suggestions # "none") =>
                      (~Ended(c) /\ Suspended.roast = o /\ Suspended.phase = "suggest")
                /\ c.phase = "suggest" =>
                      (results[i].roast = c.roast /\ results[i].suggestions = o)
                /\ c.phase = "summary" =>
                      (Ended(c) /\ analysis_jobs'[c.job_id].summary = o)]_vars
  /\ [][\A j \in Jobs, r \in RoastRequests :
          (RoastStep(j, r) /\ analysis_jobs'[j].status = FAILED) =>
            /\ awaiting' = awaiting
            /\ ~ApiKeySet \/ r.file_count < 0
            /\ "error" \in DOMAIN analysis_jobs'[j]]_vars

\* A completed auto-critique holding an error text as a file's critique.
C19_Witness ==
  \E j \in DOMAIN analysis_jobs :
    /\ analysis_jobs[j].status = COMPLETED
    /\ "roasted_files" \in DOMAIN analysis_jobs[j]
    /\ \E i \in DOMAIN analysis_jobs[j].roasted_files :
         analysis_jobs[j].roasted_files[i].roast = "error text"

\* C20: the summary call is made exactly when every selected file has been
\* roasted and there is more than one of them, and it ends the run, so it is
\* made once; a run of no file or one file ends without it and stores an empty
\* summary.
C20_SummaryOnlyForSeveralFiles ==
  /\ [][\A c \in awaiting, o \in LlmOutcomes :
          ResumeStep(c, o) =>
            LET n    == Len(c.selected)
                last == /\ Len(c.results) + 1 = n
                        /\ c.phase = "suggest" \/ (c.phase = "roast" /\ c.request.suggestions = "none")
            IN  /\ c.phase = "summary" =>
                      /\ n > 1 /\ Len(c.results) = n
                      /\ Ended(c) /\ analysis_jobs'[c.job_id].summary = o
                /\ (c.phase # "summary" /\ Ended(c)) =>
                      /\ last /\ n <= 1
                      /\ analysis_jobs'[c.job_id].summary = "None"
                /\ (last /\ n > 1) =>
                      /\ ~Ended(c)
                      /\ Suspended.phase = "summary" /\ Len(Suspended.results) = n
                /\ (c.phase # "summary" /\ ~last) =>
                      (~Ended(c) /\ Suspended.phase # "summary")]_vars
  /\ [][\A j \in Jobs, r \in RoastRequests :
          (RoastStep(j, r) /\ r.file_count >= 0 /\ awaiting' = awaiting) =>
            /\ analysis_jobs'[j].roasted_files = << >>
            /\ analysis_jobs'[j].summary = "None"]_vars

\* Two files roasted and the summary call's text stored.
C20_Witness ==
  \E j \in DOMAIN analysis_jobs :
    /\ analysis_jobs[j].status = COMPLETED
    /\ "roasted_files" \in DOMAIN analysis_jobs[j]
    /\ Len(analysis_jobs[j].roasted_files) = 2
    /\ analysis_jobs[j].summary \in LlmOutcomes

\* ------------------------------------------------------ a path-analysis run
\* The step in which a path-analysis task writes its results and returns.
PathsRunStep == cur.kind = "paths" /\ cur.pc = "run" /\ cur' = NoTask

\* The files of snapshot h beneath directory path whose extension the path
\* analysis keeps.
KeptBeneath(h, path) ==
  { f.path : f \in { g \in Range(disk[h].files) :
                       /\ IsPrefix(path, g.path) /\ g.path # path
                       /\ lower(splitext(basename(g.path))) \in path_extensions } }

\* C21: a path-analysis run that does not fail leaves the job COMPLETED with
\* exactly one entry of analysis_results per distinct selected path: type file
\* with a critique list for a file of any extension, type directory with one
\* file entry for every file beneath it that has an allow-listed extension and
\* for no other, type error with a message for a path that does not exist.
C21_OneEntryPerSelectedPath ==
  [][PathsRunStep =>
       LET h       == cur.job_data.repo_path
           job     == analysis_jobs'[cur.job_id]
           results == job.analysis_results
       IN  /\ job.status = COMPLETED
           /\ DOMAIN results = Range(cur.paths)
           /\ \A path \in Range(cur.paths) :
                IF isfile(disk, h, path)
                THEN /\ results[path].type = "file"
                     /\ DOMAIN results[path] = { "type", "critiques" }
                     /\ Len(results[path].critiques) >= 0
                ELSE IF isdir(disk, h, path)
                THEN /\ results[path].type = "directory"
                     /\ DOMAIN results[path].files = KeptBeneath(h, path)
                     /\ \A q \in KeptBeneath(h, path) :
                          /\ results[path].files[q].type = "file"
                          /\ Len(results[path].files[q].critiques) >= 0
                ELSE /\ results[path].type = "error"
                     /\ results[path].message # ""]_vars

\* A completed run over a directory, a file, a missing path and a repeated path.
C21_Witness ==
  \E j \in DOMAIN analysis_jobs :
    /\ analysis_jobs[j].status = COMPLETED
    /\ "analysis_results" \in DOMAIN analysis_jobs[j]
    /\ DOMAIN analysis_jobs[j].analysis_results = { <<SRC>>, MAIN_PY, GONE }
    /\ analysis_jobs[j].analysis_results[GONE].type = "error"
    /\ analysis_jobs[j].analysis_results[MAIN_PY].type = "file"
    /\ analysis_jobs[j].analysis_results[<<SRC>>].type = "directory"

\* C22 (as stated): every entry analysis_results held before a path-analysis
\* run is still there when the run has completed.
C22_RunKeepsEarlierEntries ==
  [][PathsRunStep =>
       DOMAIN Get(analysis_jobs[cur.job_id], "analysis_results", EmptyDict)
         \subseteq DOMAIN analysis_jobs'[cur.job_id].analysis_results]_vars

\* C22 (amended): a completed path-analysis run replaces analysis_results by
\* the results of this run: the entries are those of the selected paths, and
\* an entry held before the run for any other path is gone.
C22_RunReplacesEarlierEntries ==
  [][PathsRunStep =>
       LET before == DOMAIN Get(analysis_jobs[cur.job_id], "analysis_results", EmptyDict)
           after  == DOMAIN analysis_jobs'[cur.job_id].analysis_results
       IN  /\ after = Range(cur.paths)
           /\ (before \ Range(cur.paths)) \cap after = {}]_vars

\* A run over README.md has computed its results and is at its final write,
\* the record holding the entries an earlier run left for three other paths.
C22_Witness ==
  /\ cur.kind = "paths" /\ cur.pc = "run"
  /\ cur.paths = << README >>
  /\ analysis_jobs[cur.job_id].status = ANALYZING
  /\ "analysis_results" \in DOMAIN analysis_jobs[cur.job_id]
  /\ DOMAIN analysis_jobs[cur.job_id].analysis_results = { <<SRC>>, MAIN_PY, GONE }

\* ------------------------------------------------------------ reading a job
InProgress == { PENDING, CLONING, ANALYZING }

\* What the claim asks of the reply to a read of job j: FAILED with the
\* recorded error string for a failed job, the record's status and message
\* for a job in progress.
FaithfulReply(j) ==
  LET job_data == analysis_jobs[j]
  IN  /\ job_data.status = FAILED =>
            /\ response'.code = 200
            /\ response'.status = FAILED
            /\ response'.error = job_data.error
      /\ job_data.status \in InProgress =>
            /\ response'.code = 200
            /\ response'.status = job_data.status
            /\ response'.message = job_data.message

\* C23: each of the four status-reading operations answers a read of a failed
\* job with status FAILED and the recorded error string, and a read of a job in
\* progress with the record's status and message, not with an error.
C23_ReadsReportStatus ==
  [][\A j \in DOMAIN analysis_jobs :
       /\ get_analysis_status(j) => FaithfulReply(j)
       /\ get_path_analysis_results(j) => FaithfulReply(j)
       /\ get_structure_status(j) => FaithfulReply(j)
       /\ get_analysis_progress(j) => FaithfulReply(j)]_vars

\* ------------------------------------------------------------- termination
\* C24: with the event loop fair to its tasks and every call of a background
\* procedure returning or raising, a job that is PENDING, CLONING or ANALYZING
\* is eventually COMPLETED or FAILED: none of the four background procedures
\* leaves its job in progress for ever.
C24_ProceduresEnd ==
  \A j \in 1..2 :
    (j \in DOMAIN analysis_jobs /\ analysis_jobs[j].status \in InProgress)
      ~> (j \in DOMAIN analysis_jobs /\ analysis_jobs[j].status \in { COMPLETED, FAILED })

\* A job whose fetch, path analysis or batch run has ended: a batch run here.
C24_Witness ==
  \E j \in DOMAIN analysis_jobs :
    /\ analysis_jobs[j].status = COMPLETED
    /\ cur = NoTask /\ ready = << >>
    /\ "total_batches" \in DOMAIN analysis_jobs[j]
    /\ analysis_jobs[j].total_batches >= 1
    /\ analysis_jobs[j].completed_batches = analysis_jobs[j].total_batches

\* ------------------------------------------------------------ a second writer
SelectionKeys == { "selected_paths", "file_paths" }

\* C25: the final write of an auto-critique is built from the record as read
\* when the auto-critique started, so the selection in the record after it is
\* the one of that moment: a selection registered while the auto-critique was
\* awaiting the service is lost (C25_Witness is such a state).
C25_FinalWriteRestoresStartRecord ==
  [][\A c \in awaiting, o \in LlmOutcomes :
       (ResumeStep(c, o) /\ Ended(c)) =>
         \A k \in SelectionKeys :
           /\ k \in DOMAIN analysis_jobs'[c.job_id] <=> k \in DOMAIN c.job_data
           /\ k \in DOMAIN c.job_data => analysis_jobs'[c.job_id][k] = c.job_data[k]]_vars

\* A selection was registered for the job, and after the final write of an
\* auto-critique the record holds none.
C25_Witness ==
  \E j \in DOMAIN analysis_jobs :
    /\ fetch_log[j].selected
    /\ analysis_jobs[j].status = COMPLETED
    /\ "roasted_files" \in DOMAIN analysis_jobs[j]
    /\ awaiting = {}
    /\ "selected_paths" \notin DOMAIN analysis_jobs[j]

\* ------------------------------------------------------- a failed listing
\* C26: listing a path that is missing or is no directory in the job's
\* snapshot gives that caller an error value and changes nothing else: the
\* record, and with it the job's status, and everything later operations
\* read are as they were.
C26_FailedListingChangesNothing ==
  [][\A j \in DOMAIN analysis_jobs, p \in BrowsePaths :
       (/\ cur = NoTask
        /\ "repo_path" \in DOMAIN analysis_jobs[j]
        /\ ~isdir(disk, analysis_jobs[j].repo_path, p)
        /\ explore_directory(j, p)) =>
         /\ response'.code = 400
         /\ response'.detail # ""
         /\ analysis_jobs' = analysis_jobs
         /\ analysis_jobs'[j].status # FAILED
         /\ UNCHANGED <<disk, ready, cur, external, fetch_log, awaiting>>]_vars

\* The listing of a missing path was refused and the job is still COMPLETED.
C26_Witness ==
  /\ response.op = "explore" /\ response.code = 400
  /\ "detail" \in DOMAIN response
  /\ response.job_id \in DOMAIN analysis_jobs
  /\ "repo_path" \in DOMAIN analysis_jobs[response.job_id]
  /\ analysis_jobs[response.job_id].status = COMPLETED

\* ------------------------------------------------ a failure after the fetch
\* A fetch procedure is about to return after its clone had succeeded and a
\* later step of it had raised.
FailedAfterClone ==
  /\ cur.kind \in { "async", "structure" } /\ cur.pc = "return"
  /\ cur.repo_path # 0 /\ cur.error # ""

\* C27: when a step after a successful fetch fails in an analyze-and-finish or
\* structure-only procedure, the procedure ends normally with the job FAILED
\* and the error of that step recorded, and the snapshot is removed, unless the
\* removal itself failed, which changes nothing in the record.
C27_FailureAfterFetchCleansUp ==
  FailedAfterClone =>
    /\ analysis_jobs[cur.job_id].status = FAILED
    /\ analysis_jobs[cur.job_id].error = cur.error
    /\ exists(disk, cur.repo_path) <=> fetch_log[cur.job_id].leaked

\* The removal of the snapshot failed and the job is FAILED with the step's error.
C27_Witness ==
  /\ FailedAfterClone
  /\ exists(disk, cur.repo_path)
  /\ analysis_jobs[cur.job_id].status = FAILED
  /\ analysis_jobs[cur.job_id].error = "traverse_repository raised"

\* ------------------------------------------------------- the repository URL
\* C28: a repo_url held by a job's record is held unchanged after every step,
\* whichever operation takes it and whether it succeeds or fails.
C28_RepoUrlIsKept ==
  [][\A j \in DOMAIN analysis_jobs :
       "repo_url" \in DOMAIN analysis_jobs[j] =>
         /\ j \in DOMAIN analysis_jobs'
         /\ "repo_url" \in DOMAIN analysis_jobs'[j]
         /\ analysis_jobs'[j].repo_url = analysis_jobs[j].repo_url]_vars

\* A job that went through a selection, an analysis and an auto-critique that
\* failed still holds the URL it was fetched from.
C28_Witness ==
  \E j \in DOMAIN analysis_jobs :
    /\ analysis_jobs[j].status = FAILED
    /\ "repo_url" \in DOMAIN analysis_jobs[j]
    /\ analysis_jobs[j].repo_url = URL_SMALL
    /\ "selected_paths" \in DOMAIN analysis_jobs[j]
    /\ "analysis_results" \in DOMAIN analysis_jobs[j]
    /\ fetch_log[j].roasts > 0

\* ------------------------------------------------------ listing a directory
\* A listing has just been returned.
Listed == response.op = "explore" /\ response.code = 200

\* The entries of a sequence are in ascending order of their names.
AscendingNames(entries) ==
  \A i, k \in DOMAIN entries : i < k => NameLess(entries[i].name, entries[k].name)

\* C29: a listing names the subdirectories in one sequence and the files in
\* another, each in ascending order of name, and the same call on the snapshot
\* as the listing left it returns the same listing.
C29_ListingIsOrderedAndRepeatable ==
  Listed =>
    LET contents == response.contents
        h == analysis_jobs[response.job_id].repo_path
    IN  /\ AscendingNames(contents.directories)
        /\ AscendingNames(contents.files)
        /\ \A i \in DOMAIN contents.directories : isdir(disk, h, contents.directories[i].path)
        /\ \A i \in DOMAIN contents.files : isfile(disk, h, contents.files[i].path)
        /\ get_directory_contents(disk, h, contents.current_path) = contents

\* The listing of a directory that holds several subdirectories and several files.
C29_Witness ==
  /\ Listed
  /\ Len(response.contents.directories) > 1
  /\ Len(response.contents.files) > 1

\* ------------------------------------------- the candidates of a critique
\* |lines - 200| + |size - 5000| / 100, in hundredths.
ScoreHundredths(f) ==
  100 * (IF f.lines < 200 THEN 200 - f.lines ELSE f.lines - 200)
    + (IF f.size < 5000 THEN 5000 - f.size ELSE f.size - 5000)

\* The size of the candidate pool for a request of k files.
CandidateCount(j, r) == Min(3 * r.file_count, Cardinality(PoolInForce(j, r)))

\* f is one of the n files of S with the lowest score.
AmongLowest(f, S, n) ==
  f \in S /\ Cardinality({ g \in S : ScoreHundredths(g) < ScoreHundredths(f) }) < n

\* C30: for a count k that is not negative, every selected file is one of the
\* min(3k, available) files of the pass in force with the lowest score, and
\* the number selected is the smaller of k and the size of that pool.
C30_SelectedAmongLowestScores ==
  [][\A j \in Jobs, r \in RoastRequests :
       (r.file_count >= 0 /\ RoastStep(j, r)) =>
         /\ \A i \in DOMAIN Picked :
              \E f \in PoolInForce(j, r) :
                f.path = Picked[i] /\ AmongLowest(f, PoolInForce(j, r), CandidateCount(j, r))
         /\ Len(Picked) = Min(r.file_count, CandidateCount(j, r))]_vars

\* One file asked for, five files in the pass in force: the pool is the three
\* with the lowest score and the file selected is one of them.
C30_Witness ==
  \E c \in awaiting :
    /\ c.request.file_count = 1
    /\ Cardinality(PoolInForce(c.job_id, c.request)) = 5
    /\ CandidateCount(c.job_id, c.request) = 3
    /\ \E f \in PoolInForce(c.job_id, c.request) :
         /\ c.selected = <<f.path>>
         /\ \E g \in PoolInForce(c.job_id, c.request) : ScoreHundredths(g) > ScoreHundredths(f)

\* ------------------------------------------------ the directory filter
\* The file at path p lies in a listed directory or beneath one.
InsideListed(p, directories) ==
  \E k \in 1..(Len(p) - 1) : PathChars(SubSeq(p, 1, k)) \in directories

\* C31 (as stated): with a directory filter, every selected file lies in a
\* listed directory or beneath one, so none comes from a sibling directory
\* whose name only starts with a listed name.
C31_SelectedInsideListedDirs ==
  [][\A j \in Jobs, r \in RoastRequests :
       (r.file_count >= 0 /\ r.directories # NoDirs /\ RoastStep(j, r)) =>
         \A i \in DOMAIN Picked : InsideListed(Picked[i], r.directories)]_vars

\* ------------------------------------------------- the directory sizes
\* The sizes of the subdirectories of a directory have just been returned.
Sized == response.op = "sizes" /\ response.code = 200

\* The files of snapshot h beneath directory p, at any depth.
FilesBeneath(h, p) ==
  { f \in Range(disk[h].files) : IsPrefix(p, f.path) /\ f.path # p }

\* The directories of snapshot h beneath directory p at any depth, and those
\* directly in it, whose own name is not in the ignore set.
NamedDirsBeneath(h, p) ==
  { q \in disk[h].dirs : IsPrefix(p, q) /\ q # p /\ ~Ignored(q[Len(q)]) }

NamedDirsIn(h, p) == { q \in NamedDirsBeneath(h, p) : Len(q) = Len(p) + 1 }

\* total_files and code_files of an entry count the files at any depth.
FilesCountedRecursively(h, e) ==
  /\ e.total_files = Cardinality(FilesBeneath(h, e.path))
  /\ e.code_files =
       Cardinality({ f \in FilesBeneath(h, e.path) :
                       lower(splitext(f.path[Len(f.path)])) \in code_extensions })

\* C32 (as stated): the subdirectories figure of each reported subdirectory
\* is the number of its immediate child directories outside the ignore set,
\* while total_files and code_files count the files at any depth.
C32_SubdirectoriesCountedImmediate ==
  Sized =>
    LET h == analysis_jobs[response.job_id].repo_path IN
    \A i \in DOMAIN response.directories :
      LET e == response.directories[i] IN
      /\ e.subdirectories = Cardinality(NamedDirsIn(h, e.path))
      /\ FilesCountedRecursively(h, e)

\* C32 (amended): the subdirectories figure of each reported subdirectory is
\* the number of directories at any depth beneath it whose own name is not in
\* the ignore set, those inside an ignored directory included; total_files
\* and code_files count the files at any depth.
C32_SubdirectoriesCountedRecursively ==
  Sized =>
    LET h == analysis_jobs[response.job_id].repo_path IN
    \A i \in DOMAIN response.directories :
      LET e == response.directories[i] IN
      /\ e.subdirectories = Cardinality(NamedDirsBeneath(h, e.path))
      /\ FilesCountedRecursively(h, e)

\* The sizes of the root's subdirectories: src holds one directory outside the
\* ignore set and is reported with three.
C32_Witness ==
  /\ Sized
  /\ \E i \in DOMAIN response.directories :
       /\ response.directories[i].path = <<SRC>>
       /\ response.directories[i].subdirectories = 3
       /\ Cardinality(NamedDirsIn(analysis_jobs[response.job_id].repo_path, <<SRC>>)) = 1

\* ------------------------------------------------ overlapping selections
\* The input path p reaches the file q of snapshot h: p is that file, or a
\* directory above it; the file has one of the code extensions.
Reaches(h, p, q) ==
  /\ isfile(disk, h, q)
  /\ lower(splitext(q[Len(q)])) \in code_extensions
  /\ \/ p = q
     \/ isdir(disk, h, p) /\ IsPrefix(p, q) /\ p # q

Occurrences(seq, x) == Cardinality({ k \in DOMAIN seq : seq[k] = x })

\* C33: the expansion of a selection lists a file once for every input path
\* that reaches it, and the count is the length of the expansion, whether or
\* not the input paths overlap.
C33_CountedOncePerOccurrence ==
  [][\A j \in Jobs, sel \in Selections :
       (SelectStep(j, sel) /\ ~exceeds_limit(response'.total_files)) =>
         LET h == analysis_jobs[j].repo_path
             file_paths == analysis_jobs'[j].file_paths
         IN  /\ response'.total_files = Len(file_paths)
             /\ \A f \in Range(disk[h].files) :
                  Occurrences(file_paths, f.path) =
                    Cardinality({ i \in DOMAIN sel : Reaches(h, sel[i], f.path) })
             /\ \A k \in DOMAIN file_paths : isfile(disk, h, file_paths[k])]_vars

\* A directory selected with a file inside it and a directory beneath it: the
\* count exceeds the number of distinct files.
C33_Witness ==
  /\ response.op = "select" /\ response.code = 200
  /\ response.selected_paths = << <<SRC>>, <<SRC, Nm("app", 0, ".py")>>, <<SRC, CORE>> >>
  /\ "file_paths" \in DOMAIN analysis_jobs[response.job_id]
  /\ analysis_jobs[response.job_id].selected_paths = response.selected_paths
  /\ response.total_files = Len(analysis_jobs[response.job_id].file_paths)
  /\ response.total_files > Cardinality(Range(analysis_jobs[response.job_id].file_paths))
  /\ Occurrences(analysis_jobs[response.job_id].file_paths, <<SRC, Nm("app", 0, ".py")>>) = 2

\* ------------------------------------------- a listed file that is gone
\* The paths of the batch being processed that are no files of the snapshot.
MissingInBatch ==
  { x \in Range(batch_slice(cur.file_paths, cur.batch_idx, cur.batch_size)) :
      ~isfile(disk, cur.repo_path, x) }

\* C34: a listed path that is no file when its batch is processed gets no
\* entry from that batch, of either type, and does not fail the job: the
\* batch is counted as completed, every entry is a file entry, and the run
\* ends COMPLETED with all its batches counted.
C34_MissingFileIsSkipped ==
  /\ [][BatchDoneStep =>
          LET before == DOMAIN Get(analysis_jobs[cur.job_id], "analysis_results", EmptyDict)
              rec    == analysis_jobs'[cur.job_id]
          IN  /\ (DOMAIN rec.analysis_results \ before) \cap MissingInBatch = {}
              /\ \A q \in DOMAIN rec.analysis_results : rec.analysis_results[q].type = "file"
              /\ rec.status = ANALYZING
              /\ Get(rec, "error", "") = Get(analysis_jobs[cur.job_id], "error", "")
              /\ rec.completed_batches = cur.batch_idx + 1]_vars
  /\ [](BatchRunDone =>
          /\ analysis_jobs[cur.job_id].status = COMPLETED
          /\ analysis_jobs[cur.job_id].completed_batches = cur.total_batches)

\* A run has completed whose list names a file that was gone when its batch
\* was processed: the file has no entry and every batch is counted.
C34_Witness ==
  /\ BatchRunDone
  /\ analysis_jobs[cur.job_id].status = COMPLETED
  /\ analysis_jobs[cur.job_id].completed_batches = cur.total_batches
  /\ cur.total_batches >= 1
  /\ \E x \in Range(cur.file_paths) :
       /\ x \notin DOMAIN analysis_jobs[cur.job_id].analysis_results
       /\ ~isfile(disk, cur.repo_path, x)

\* ------------------------------------------- a procedure without its input
\* A path-analysis or batch procedure takes its first step on a record that
\* lacks what it needs: repo_path, or file_paths for the batch procedure.
StartsWithoutInput ==
  /\ cur.kind \in { "paths", "batch" } /\ cur.pc = "begin"
  /\ cur' # cur
  /\ \/ "repo_path" \notin DOMAIN analysis_jobs[cur.job_id]
     \/ cur.kind = "batch" /\ "file_paths" \notin DOMAIN analysis_jobs[cur.job_id]

FailureKeys == { "status", "message", "error" }

\* C35: a path-analysis or batch procedure that starts on a record without
\* repo_path (or, for the batch procedure, without file_paths) ends at once:
\* the job is FAILED with an error text, and every other field of the record
\* is as it was, so no analysis result was written.
C35_MissingInputFailsJob ==
  [][StartsWithoutInput =>
       LET before == analysis_jobs[cur.job_id]
           after  == analysis_jobs'[cur.job_id]
       IN  /\ cur' = NoTask
           /\ after.status = FAILED
           /\ "error" \in DOMAIN after /\ after.error # ""
           /\ DOMAIN after \cup FailureKeys = DOMAIN before \cup FailureKeys
           /\ \A k \in DOMAIN before \ FailureKeys : after[k] = before[k]
           /\ disk' = disk]_vars

\* A batch run was requested for a selection that the final write of an
\* auto-critique then removed from the record: the job is FAILED, with its
\* snapshot and the critique's results still in the record.
C35_Witness ==
  \E j \in DOMAIN analysis_jobs :
    /\ analysis_jobs[j].status = FAILED
    /\ analysis_jobs[j].error = "Repository not found or no files selected."
    /\ "file_paths" \notin DOMAIN analysis_jobs[j]
    /\ "repo_path" \in DOMAIN analysis_jobs[j]
    /\ "roasted_files" \in DOMAIN analysis_jobs[j]
    /\ fetch_log[j].selected

\* ------------------------------------------------ the snapshot of a record
\* C36: the snapshot a record names with repo_path is in place; a snapshot
\* is deleted only by the failure cleanup of a fetch procedure, after the
\* record that no longer holds repo_path has been written, and by no other
\* operation.
C36_NamedSnapshotInPlace ==
  /\ [](\A j \in DOMAIN analysis_jobs :
          "repo_path" \in DOMAIN analysis_jobs[j] => exists(disk, analysis_jobs[j].repo_path))
  /\ [][\A h \in DOMAIN disk :
          h \notin DOMAIN disk' =>
            /\ cur.kind \in { "async", "structure" } /\ cur.pc = "cleanup"
            /\ h = cur.repo_path
            /\ analysis_jobs' = analysis_jobs
            /\ analysis_jobs[cur.job_id].status = FAILED
            /\ \A j \in DOMAIN analysis_jobs :
                 "repo_path" \notin DOMAIN analysis_jobs[j]
                   \/ analysis_jobs[j].repo_path # h]_vars

\* The cleanup of a failed fetch has deleted the snapshot its clone had made,
\* and the job's record names no snapshot.
C36_Witness ==
  /\ cur.kind \in { "async", "structure" } /\ cur.pc = "return"
  /\ cur.repo_path # 0
  /\ ~exists(disk, cur.repo_path)
  /\ analysis_jobs[cur.job_id].status = FAILED
  /\ "repo_path" \notin DOMAIN analysis_jobs[cur.job_id]

\* ------------------------------------------------------------- two jobs
\* The jobs whose record a step adds, removes or changes.
Touched ==
  { j \in DOMAIN analysis_jobs \cup DOMAIN analysis_jobs' :
      \/ j \notin DOMAIN analysis_jobs
      \/ j \notin DOMAIN analysis_jobs'
      \/ analysis_jobs'[j] # analysis_jobs[j] }

\* The jobs a step may work for: the job of the running background procedure,
\* the job of the request handler that suspended or resumed in the step, or
\* the job named in the reply of the request handler that took the step.  A
\* handler that suspends with the very copy and request another suspended
\* handler holds leaves awaiting as it is: it is known by its copy of the
\* record as it was before the step.
StepJobs ==
  IF cur # NoTask THEN { cur.job_id }
  ELSE IF awaiting' # awaiting
       THEN { c.job_id : c \in (awaiting' \ awaiting) \cup (awaiting \ awaiting') }
       ELSE { response'.job_id } \cup
            { c.job_id : c \in { d \in awaiting :
                                   /\ d.job_id \in DOMAIN analysis_jobs
                                   /\ d.job_data = analysis_jobs[d.job_id]
                                   /\ d.results = << >> } }

\* C37: a step changes the record of no job other than the one it works for,
\* removes no record, and no two records hold the same repo_path.
C37_JobsDoNotInterfere ==
  /\ [][/\ Touched # {} => \E j \in StepJobs : Touched = { j }
        /\ DOMAIN analysis_jobs \subseteq DOMAIN analysis_jobs']_vars
  /\ [](\A a, b \in DOMAIN analysis_jobs :
          (/\ a # b
           /\ "repo_path" \in DOMAIN analysis_jobs[a]
           /\ "repo_path" \in DOMAIN analysis_jobs[b])
            => analysis_jobs[a].repo_path # analysis_jobs[b].repo_path)

\* A batch run of one job is under way while an auto-critique of the other
\* job is suspended, both jobs holding a snapshot of their own.
C37_Witness ==
  /\ cur.kind = "batch" /\ cur.pc = "loop"
  /\ \E c \in awaiting : c.job_id # cur.job_id
  /\ \A j \in { 1, 2 } :
       j \in DOMAIN analysis_jobs /\ "repo_path" \in DOMAIN analysis_jobs[j]
  /\ analysis_jobs[1].repo_path # analysis_jobs[2].repo_path

\* ------------------------------------------------------ progress of a job
BatchCountsInRange ==
  \A j \in DOMAIN analysis_jobs :
    LET job_data == analysis_jobs[j] IN
      "total_batches" \in DOMAIN job_data \/ "completed_batches" \in DOMAIN job_data
        => /\ { "total_batches", "completed_batches" } \subseteq DOMAIN job_data
           /\ 0 <= job_data.completed_batches
           /\ job_data.completed_batches <= job_data.total_batches

\* A batch run has started on the selection the record holds, and the record
\* has no more entries in analysis_results than paths in file_paths.
EntriesWithinListed ==
  \A j \in DOMAIN analysis_jobs :
    fetch_log[j].run_on_selection
      => Cardinality(DOMAIN Get(analysis_jobs[j], "analysis_results", EmptyDict))
           <= Len(Get(analysis_jobs[j], "file_paths", << >>))

PercentageInRange ==
  response.op = "progress" /\ response.code = 200
    => IF response.total_batches = 0
       THEN response.progress_percentage = [none |-> TRUE]
       ELSE /\ DOMAIN response.progress_percentage = { "percent" }
            /\ response.progress_percentage.percent \in 0..100
            /\ 0 <= response.completed_batches
            /\ response.completed_batches <= response.total_batches

\* C38: in every state 0 <= completed_batches <= total_batches; while the
\* selection has not been replaced since a batch run started on it,
\* analysis_results has at most as many entries as file_paths has paths; the
\* percentage the progress operation reports is absent when total_batches is 0
\* and lies between 0 and 100 otherwise.
C38_ProgressIsConsistent ==
  /\ BatchCountsInRange
  /\ EntriesWithinListed
  /\ PercentageInRange

\* A step of a batch run that has passed its checks.
BatchRunWrites ==
  /\ cur.kind = "batch"
  /\ cur'.kind = "batch" /\ cur'.pc \in { "loop", "failed", "return" }
  /\ analysis_jobs'[cur.job_id] # analysis_jobs[cur.job_id]

\* What holds of the progress of a job: the two counters and the percentage
\* are in range in every state, and every record a batch run writes has at
\* most as many entries in analysis_results as file_paths has paths, each
\* entry being a listed path.
ProgressConsistentDuringRun ==
  /\ [](BatchCountsInRange /\ PercentageInRange)
  /\ [][BatchRunWrites =>
          LET rec == analysis_jobs'[cur.job_id] IN
            /\ fetch_log'[cur.job_id].run_on_selection
            /\ DOMAIN rec.analysis_results \subseteq Range(rec.file_paths)
            /\ Cardinality(DOMAIN rec.analysis_results) <= Len(rec.file_paths)]_vars
====
